---- MODULE Spec2Model ----
(***************************************************************************)
(* Pattern canonicalization of the Roc compiler front end                  *)
(* (compiler/can/src/pattern.rs) as a state machine.                       *)
(*                                                                         *)
(* The state is the environment one compilation unit threads through its   *)
(* calls: the scope (name -> symbol, region), the identifier interning     *)
(* table, the fresh type-variable counter and the diagnostics sink,        *)
(* together with the arguments and the value of the most recent call.      *)
(* Each action is one call of a public function of pattern.rs on a         *)
(* surface pattern drawn from a bounded universe.                          *)
(*                                                                         *)
(* A symbol is the IdentId of its interned name (its index in ident_ids),  *)
(* the home module being fixed.  A text is a sequence of one-character     *)
(* strings.  A region is a natural number; the region of a child node is   *)
(* derived from its parent's (Child), so distinct nodes of one surface     *)
(* tree carry distinct regions.                                            *)
(***************************************************************************)
EXTENDS Integers, Sequences, FiniteSets, TLC

VARIABLES idents, opaques, ident_ids, var_store, problems, call, result, status, ncalls

vars == <<idents, opaques, ident_ids, var_store, problems, call, result, status, ncalls>>

(***************************************************************************)
(* Bounds                                                                  *)
(***************************************************************************)
\* number of calls made on one environment
MaxCalls == 2
\* width, in bits, standing for the 128 bits of IntValue (i128 / u128)
IntBits == 6

(***************************************************************************)
(* Small helpers                                                           *)
(***************************************************************************)
Loc(region, value) == [region |-> region, value |-> value]

\* a located name (Loc<Ident>)
LocName(region, name) == [region |-> region, ident |-> name]

Child(region, i) == region * 10 + i

\* the region of what stands inside child i of the node at the region
Inner(region, i) == Child(Child(region, i), 1)

Range(s) == {s[i] : i \in 1..Len(s)}

RECURSIVE Pow2(_)
Pow2(n) == IF n = 0 THEN 1 ELSE 2 * Pow2(n - 1)

I128_MAX == Pow2(IntBits - 1) - 1

U128_MAX == Pow2(IntBits) - 1

PatternTypes == {"TopLevelDef", "DefExpr", "FunctionArg", "WhenBranch"}

(***************************************************************************)
(* Collaborators of pattern.rs that live in other crates of the compiler:  *)
(* Output, Env::problem, IdentIds, Scope, VarStore, the literal classifier *)
(* and canonicalize_expr.                                                  *)
(***************************************************************************)
\* Output::default()
OutputDefault ==
    [bound_symbols |-> {}, referenced_type_defs |-> {}, type_lookups |-> {}, value_lookups |-> {}]

\* Output::union
union(a, b) ==
    [bound_symbols |-> a.bound_symbols \cup b.bound_symbols,
     referenced_type_defs |-> a.referenced_type_defs \cup b.referenced_type_defs,
     type_lookups |-> a.type_lookups \cup b.type_lookups,
     value_lookups |-> a.value_lookups \cup b.value_lookups]

\* Env::problem: append to the diagnostics sink
env_problem(st, problem) == [st EXCEPT !.problems = Append(@, problem)]

\* VarStore::fresh: the variable handed out is the counter's value before the call
fresh(st) == [st EXCEPT !.var_store = @ + 1]

\* IdentIds::add: intern a name under a new id even if the name is already there
ident_ids_add(st, name) == [st EXCEPT !.ident_ids = Append(@, name)]

\* IdentIds::get_or_insert: the id the name already has, or a new one
get_or_insert(st, name) ==
    IF \E i \in 1..Len(st.ident_ids) : st.ident_ids[i] = name
    THEN [st |-> st,
          id |-> CHOOSE i \in 1..Len(st.ident_ids) :
                    /\ st.ident_ids[i] = name
                    /\ \A j \in 1..(i - 1) : st.ident_ids[j] # name]
    ELSE [st |-> ident_ids_add(st, name), id |-> Len(st.ident_ids) + 1]

InScope(st, name) == \E b \in st.idents : b.name = name

Binding(st, name) == CHOOSE b \in st.idents : b.name = name

\* Scope::introduce: a new symbol is interned and bound under the name in both
\* outcomes; a collision reports the region of the binding it replaces
introduce(st, name, region) ==
    LET st1 == ident_ids_add(st, name)
        symbol == Len(st1.ident_ids)
        others == {b \in st.idents : b.name # name}
        st2 == [st1 EXCEPT !.idents =
                   others \cup {[name |-> name, symbol |-> symbol, region |-> region]}]
    IN  IF InScope(st, name)
        THEN [st |-> st2, ok |-> FALSE, symbol |-> symbol,
              original_region |-> Binding(st, name).region,
              shadow |-> LocName(region, name)]
        ELSE [st |-> st2, ok |-> TRUE, symbol |-> symbol,
              original_region |-> 0, shadow |-> LocName(region, name)]

\* the ability members the AbilitiesStore knows, as symbols
abilities_store == {2}

\* Scope::introduce_or_shadow_ability_member: a name that is bound to an
\* ability member gets a new symbol that specializes the member, the name
\* staying bound to the member; any other name is introduced as by introduce
introduce_or_shadow_ability_member(st, name, region) ==
    IF InScope(st, name) /\ Binding(st, name).symbol \in abilities_store
    THEN LET st1 == ident_ids_add(st, name)
         IN  [st |-> st1, ok |-> TRUE, symbol |-> Len(st1.ident_ids),
              original_region |-> 0, shadow |-> LocName(region, name),
              shadowing_ability_member |-> [some |-> TRUE, symbol |-> Binding(st, name).symbol]]
    ELSE LET i == introduce(st, name, region)
         IN  [st |-> i.st, ok |-> i.ok, symbol |-> i.symbol,
              original_region |-> i.original_region, shadow |-> i.shadow,
              shadowing_ability_member |-> [some |-> FALSE]]

\* Scope::ignore: interns the name, binds nothing
ignore(st, name) ==
    LET st1 == ident_ids_add(st, name)
    IN  [st |-> st1, symbol |-> Len(st1.ident_ids)]

\* Scope::lookup_opaque_ref
lookup_opaque_ref(st, name, region) ==
    IF \E o \in st.opaques : o.name = name
    THEN LET o == CHOOSE o \in st.opaques : o.name = name
         IN  [ok |-> TRUE, opaque |-> o.symbol, opaque_def |-> o,
              runtime_error |-> [tag |-> "OpaqueNotDefined", usage |-> LocName(region, name)]]
    ELSE [ok |-> FALSE, opaque |-> 0, opaque_def |-> [name |-> name, symbol |-> 0, type_vars |-> 0],
          runtime_error |-> [tag |-> "OpaqueNotDefined", usage |-> LocName(region, name)]]

\* freshen_opaque_def: one fresh variable per type parameter of the definition
RECURSIVE freshen_opaque_def(_, _, _)
freshen_opaque_def(st, n, acc) ==
    IF n = 0 THEN [st |-> st, type_arguments |-> acc]
    ELSE freshen_opaque_def(fresh(st), n - 1, Append(acc, st.var_store))

\* unescape_char
unescape_char(escaped) ==
    CASE escaped = "Quote" -> "\""
      [] escaped = "Backslash" -> "\\"
      [] escaped = "CarriageReturn" -> "\r"
      [] escaped = "Tab" -> "\t"
      [] escaped = "Newline" -> "\n"

\* finish_parsing_float on the float tokens of the universe
finish_parsing_float(str) ==
    CASE str = "1.5" -> [ok |-> TRUE, str_without_suffix |-> "1.5", float |-> 15, bound |-> "None"]
      [] str = "1.5f32" -> [ok |-> TRUE, str_without_suffix |-> "1.5", float |-> 15, bound |-> "F32"]
      [] OTHER -> [ok |-> FALSE, str_without_suffix |-> "", float |-> 0, bound |-> "None"]

\* finish_parsing_num on the number tokens of the universe
finish_parsing_num(str) ==
    CASE str = "42" -> [ok |-> TRUE, kind |-> "UnknownNum", n |-> 42, bound |-> "None"]
      [] str = "42u8" -> [ok |-> TRUE, kind |-> "Int", n |-> 42, bound |-> "U8"]
      [] str = "42f64" -> [ok |-> TRUE, kind |-> "Float", n |-> 42, bound |-> "F64"]
      [] OTHER -> [ok |-> FALSE, kind |-> "Err", n |-> 0, bound |-> "None"]

Radix(base) ==
    CASE base = "Hex" -> 16
      [] base = "Octal" -> 8
      [] base = "Binary" -> 2

RECURSIVE DigitsValue(_, _)
DigitsValue(digits, radix) ==
    IF digits = <<>> THEN 0
    ELSE DigitsValue(SubSeq(digits, 1, Len(digits) - 1), radix) * radix + digits[Len(digits)]

\* finish_parsing_base: the magnitude of the digits, as a signed value when it
\* fits, as an unsigned value of full width when only that fits
finish_parsing_base(string, base, is_negative) ==
    LET radix == Radix(base)
        n == DigitsValue(string, radix)
    IN  IF string = <<>> \/ \E i \in 1..Len(string) : string[i] >= radix
        THEN [ok |-> FALSE, int |-> [kind |-> "I128", n |-> 0], bound |-> "None"]
        ELSE IF n <= I128_MAX
        THEN [ok |-> TRUE, int |-> [kind |-> "I128", n |-> n], bound |-> "None"]
        ELSE IF n <= U128_MAX
        THEN [ok |-> TRUE, int |-> [kind |-> "U128", n |-> n], bound |-> "None"]
        ELSE [ok |-> FALSE, int |-> [kind |-> "I128", n |-> 0], bound |-> "None"]

\* canonicalize_expr on the default expressions of the universe: a number
\* literal, or a variable looked up in the scope
canonicalize_expr(st, region, expr) ==
    IF expr.tag = "Num"
    THEN [st |-> fresh(st), output |-> OutputDefault,
          expr |-> Loc(region, [tag |-> "Num", var |-> st.var_store])]
    ELSE IF InScope(st, expr.ident)
    THEN [st |-> st,
          output |-> [OutputDefault EXCEPT !.value_lookups = {Binding(st, expr.ident).symbol}],
          expr |-> Loc(region, [tag |-> "Var", symbol |-> Binding(st, expr.ident).symbol])]
    ELSE [st |-> env_problem(st, [tag |-> "LookupNotInScope", loc_name |-> LocName(region, expr.ident)]),
          output |-> OutputDefault,
          expr |-> Loc(region, [tag |-> "RuntimeError"])]

(***************************************************************************)
(* pattern.rs: diagnostics helpers and string flattening                   *)
(***************************************************************************)
Aborted == [tag |-> "Aborted"]

\* unsupported_pattern overwriting the diagnostics recorded so far
unsupported_pattern_mut(st, pattern_type, region) ==
    [st |-> [st EXCEPT !.problems = <<[tag |-> "UnsupportedPattern",
                                       bad |-> [kind |-> "Unsupported",
                                                pattern_type |-> pattern_type],
                                       region |-> region]>>],
     value |-> [tag |-> "UnsupportedPattern", region |-> region]]

unsupported_pattern(st, pattern_type, region) ==
    [st |-> env_problem(st, [tag |-> "UnsupportedPattern",
                             bad |-> [kind |-> "Unsupported", pattern_type |-> pattern_type],
                             region |-> region]),
     value |-> [tag |-> "UnsupportedPattern", region |-> region]]

bad_underscore(st, region) ==
    [st |-> env_problem(st, [tag |-> "UnsupportedPattern",
                             bad |-> [kind |-> "UnderscoreInDef"],
                             region |-> region]),
     value |-> [tag |-> "UnsupportedPattern", region |-> region]]

malformed_pattern(st, problem, region) ==
    [st |-> env_problem(st, [tag |-> "MalformedPattern", problem |-> problem, region |-> region]),
     value |-> [tag |-> "MalformedPattern", problem |-> problem, region |-> region]]

\* flatten_segments starting every line with an empty buffer
RECURSIVE flatten_segments_mut(_, _, _, _)
flatten_segments_mut(lines, i, j, buf) ==
    IF i > Len(lines) THEN [value |-> [tag |-> "StrLiteral", text |-> buf], abort |-> "none"]
    ELSE IF j > Len(lines[i])
    THEN flatten_segments_mut(lines, i + 1, 1, IF i < Len(lines) THEN <<>> ELSE buf)
    ELSE LET segment == lines[i][j]
         IN  CASE segment.tag = "Plaintext" ->
                    flatten_segments_mut(lines, i, j + 1, buf \o segment.text)
               [] segment.tag = "Unicode" ->
                    [value |-> Aborted, abort |-> "todo"]
               [] segment.tag = "Interpolated" ->
                    [value |-> [tag |-> "UnsupportedPattern", region |-> segment.loc_expr.region],
                     abort |-> "none"]
               [] segment.tag = "EscapedChar" ->
                    flatten_segments_mut(lines, i, j + 1,
                                         Append(buf, unescape_char(segment.escaped)))

\* the loop of flatten_str_lines, at segment j of line i with the text gathered so far
RECURSIVE flatten_segments(_, _, _, _)
flatten_segments(lines, i, j, buf) ==
    IF i > Len(lines) THEN [value |-> [tag |-> "StrLiteral", text |-> buf], abort |-> "none"]
    ELSE IF j > Len(lines[i]) THEN flatten_segments(lines, i + 1, 1, buf)
    ELSE LET segment == lines[i][j]
         IN  CASE segment.tag = "Plaintext" ->
                    flatten_segments(lines, i, j + 1, buf \o segment.text)
               [] segment.tag = "Unicode" ->
                    [value |-> Aborted, abort |-> "todo"]
               [] segment.tag = "Interpolated" ->
                    [value |-> [tag |-> "UnsupportedPattern", region |-> segment.loc_expr.region],
                     abort |-> "none"]
               [] segment.tag = "EscapedChar" ->
                    flatten_segments(lines, i, j + 1, Append(buf, unescape_char(segment.escaped)))

flatten_str_lines(lines) == flatten_segments(lines, 1, 1, <<>>)

flatten_str_literal(literal) ==
    CASE literal.tag = "PlainLine" ->
            [value |-> [tag |-> "StrLiteral", text |-> literal.text], abort |-> "none"]
      [] literal.tag = "Line" -> flatten_str_lines(<<literal.segments>>)
      [] literal.tag = "Block" -> flatten_str_lines(literal.lines)

(***************************************************************************)
(* pattern.rs: the arms of canonicalize_pattern that do not recurse.       *)
(* Each yields [st, output, value, abort].                                 *)
(***************************************************************************)
Arm(st, output, value) == [st |-> st, output |-> output, value |-> value, abort |-> "none"]

ArmAbort(st, output, kind) == [st |-> st, output |-> output, value |-> Aborted, abort |-> kind]

BindSymbol(output, symbol) == [output EXCEPT !.bound_symbols = @ \cup {symbol}]

shadowing(st, i) ==
    env_problem(st, [tag |-> "Shadowing", original_region |-> i.original_region, shadow |-> i.shadow])

\* Shadowed carrying the region of the new binding in place of the original's
Shadowed_mut(i) ==
    [tag |-> "Shadowed", original_region |-> i.shadow.region, shadow |-> i.shadow,
     symbol |-> i.symbol]

Shadowed(i) ==
    [tag |-> "Shadowed", original_region |-> i.original_region, shadow |-> i.shadow,
     symbol |-> i.symbol]

\* identifier_arm with a collision that is not reported
identifier_arm_mut(st, output, name, region) ==
    LET i == introduce(st, name, region)
    IN  IF i.ok
        THEN Arm(i.st, BindSymbol(output, i.symbol), [tag |-> "Identifier", symbol |-> i.symbol])
        ELSE Arm(i.st, BindSymbol(output, i.symbol), Shadowed(i))

identifier_arm(st, output, name, region) ==
    LET i == introduce(st, name, region)
    IN  IF i.ok
        THEN Arm(i.st, BindSymbol(output, i.symbol), [tag |-> "Identifier", symbol |-> i.symbol])
        ELSE Arm(shadowing(i.st, i), BindSymbol(output, i.symbol), Shadowed(i))

\* AppliedTag with one variable for the tag union and its extension
AppliedTag_mut(whole_var, tag_name, arguments) ==
    [tag |-> "AppliedTag", whole_var |-> whole_var, ext_var |-> whole_var,
     tag_name |-> tag_name, arguments |-> arguments]

AppliedTag(whole_var, tag_name, arguments) ==
    [tag |-> "AppliedTag", whole_var |-> whole_var, ext_var |-> whole_var + 1,
     tag_name |-> tag_name, arguments |-> arguments]

global_tag_arm(st, output, name, arguments) ==
    Arm(fresh(fresh(st)), output,
        AppliedTag(st.var_store, [kind |-> "Global", name |-> name, symbol |-> 0], arguments))

private_tag_arm(st, output, name, arguments) ==
    LET g == get_or_insert(st, name)
    IN  Arm(fresh(fresh(g.st)), output,
            AppliedTag(g.st.var_store, [kind |-> "Private", name |-> name, symbol |-> g.id],
                       arguments))

opaque_ref_arm(st, output, name, region) ==
    Arm(env_problem(st, [tag |-> "OpaqueNotApplied", loc_name |-> LocName(region, name)]),
        output, [tag |-> "UnsupportedPattern", region |-> region])

\* apply_opaque_arm without the check of the number of arguments
apply_opaque_arm_mut(st, output, can_patterns, tag, region) ==
    LET l == lookup_opaque_ref(st, tag.value.name, tag.region)
    IN  IF l.ok
        THEN LET f == freshen_opaque_def(st, l.opaque_def.type_vars, <<>>)
             IN  Arm(fresh(f.st),
                     [output EXCEPT !.referenced_type_defs = @ \cup {l.opaque},
                                    !.type_lookups = @ \cup {l.opaque}],
                     [tag |-> "UnwrappedOpaque", whole_var |-> f.st.var_store,
                      opaque |-> l.opaque, argument |-> can_patterns[Len(can_patterns)],
                      type_arguments |-> f.type_arguments])
        ELSE Arm(env_problem(st, l.runtime_error), output,
                 [tag |-> "OpaqueNotInScope", loc_name |-> LocName(tag.region, tag.value.name)])

\* apply_opaque_arm recording the opaque as referenced but not as looked up
apply_opaque_arm_mut2(st, output, can_patterns, tag, region) ==
    LET l == lookup_opaque_ref(st, tag.value.name, tag.region)
    IN  IF l.ok
        THEN IF Len(can_patterns) > 1
             THEN Arm(env_problem(st, [tag |-> "OpaqueAppliedToMultipleArgs", region |-> region]),
                      output, [tag |-> "UnsupportedPattern", region |-> region])
             ELSE LET f == freshen_opaque_def(st, l.opaque_def.type_vars, <<>>)
                  IN  Arm(fresh(f.st),
                          [output EXCEPT !.referenced_type_defs = @ \cup {l.opaque}],
                          [tag |-> "UnwrappedOpaque", whole_var |-> f.st.var_store,
                           opaque |-> l.opaque, argument |-> can_patterns[Len(can_patterns)],
                           type_arguments |-> f.type_arguments])
        ELSE Arm(env_problem(st, l.runtime_error), output,
                 [tag |-> "OpaqueNotInScope", loc_name |-> LocName(tag.region, tag.value.name)])

\* apply_opaque_arm returning from the error cases with an empty Output
apply_opaque_arm_mut3(st, output, can_patterns, tag, region) ==
    LET l == lookup_opaque_ref(st, tag.value.name, tag.region)
    IN  IF l.ok
        THEN IF Len(can_patterns) = 0 THEN ArmAbort(st, output, "debug_assert")
             ELSE IF Len(can_patterns) > 1
             THEN Arm(env_problem(st, [tag |-> "OpaqueAppliedToMultipleArgs", region |-> region]),
                      OutputDefault, [tag |-> "UnsupportedPattern", region |-> region])
             ELSE LET f == freshen_opaque_def(st, l.opaque_def.type_vars, <<>>)
                  IN  Arm(fresh(f.st),
                          [output EXCEPT !.referenced_type_defs = @ \cup {l.opaque},
                                         !.type_lookups = @ \cup {l.opaque}],
                          [tag |-> "UnwrappedOpaque", whole_var |-> f.st.var_store,
                           opaque |-> l.opaque, argument |-> can_patterns[Len(can_patterns)],
                           type_arguments |-> f.type_arguments])
        ELSE Arm(env_problem(st, l.runtime_error), OutputDefault,
                 [tag |-> "OpaqueNotInScope", loc_name |-> LocName(tag.region, tag.value.name)])

\* Apply with an OpaqueRef head, after the arguments have been canonicalized
apply_opaque_arm(st, output, can_patterns, tag, region) ==
    LET l == lookup_opaque_ref(st, tag.value.name, tag.region)
    IN  IF l.ok
        THEN IF Len(can_patterns) = 0 THEN ArmAbort(st, output, "debug_assert")
             ELSE IF Len(can_patterns) > 1
             THEN Arm(env_problem(st, [tag |-> "OpaqueAppliedToMultipleArgs", region |-> region]),
                      output, [tag |-> "UnsupportedPattern", region |-> region])
             ELSE LET f == freshen_opaque_def(st, l.opaque_def.type_vars, <<>>)
                  IN  Arm(fresh(f.st),
                          [output EXCEPT !.referenced_type_defs = @ \cup {l.opaque},
                                         !.type_lookups = @ \cup {l.opaque}],
                          [tag |-> "UnwrappedOpaque", whole_var |-> f.st.var_store,
                           opaque |-> l.opaque, argument |-> can_patterns[Len(can_patterns)],
                           type_arguments |-> f.type_arguments])
        ELSE Arm(env_problem(st, l.runtime_error), output,
                 [tag |-> "OpaqueNotInScope", loc_name |-> LocName(tag.region, tag.value.name)])

apply_tag_arm(st, output, can_patterns, tag, region) ==
    CASE tag.value.tag = "GlobalTag" -> global_tag_arm(st, output, tag.value.name, can_patterns)
      [] tag.value.tag = "PrivateTag" -> private_tag_arm(st, output, tag.value.name, can_patterns)
      [] tag.value.tag = "OpaqueRef" -> apply_opaque_arm(st, output, can_patterns, tag, region)
      [] OTHER -> ArmAbort(st, output, "unreachable")

FromHelper(h, output) == Arm(h.st, output, h.value)

float_literal_arm(st, output, pattern_type, str, region) ==
    IF pattern_type = "WhenBranch"
    THEN LET p == finish_parsing_float(str)
         IN  IF ~p.ok
             THEN FromHelper(malformed_pattern(st, [kind |-> "MalformedFloat"], region), output)
             ELSE Arm(fresh(fresh(st)), output,
                      [tag |-> "FloatLiteral", var |-> st.var_store, precision_var |-> st.var_store + 1,
                       str |-> p.str_without_suffix, float |-> p.float, bound |-> p.bound])
    ELSE FromHelper(unsupported_pattern(st, pattern_type, region), output)

\* underscore_arm with the wildcard allowed under WhenBranch only
underscore_arm_mut(st, output, pattern_type, region) ==
    IF pattern_type = "WhenBranch"
    THEN Arm(st, output, [tag |-> "Underscore"])
    ELSE FromHelper(bad_underscore(st, region), output)

underscore_arm(st, output, pattern_type, region) ==
    IF pattern_type \in {"WhenBranch", "FunctionArg"}
    THEN Arm(st, output, [tag |-> "Underscore"])
    ELSE FromHelper(bad_underscore(st, region), output)

num_literal_arm(st, output, pattern_type, str, region) ==
    IF pattern_type = "WhenBranch"
    THEN LET p == finish_parsing_num(str)
             int == [kind |-> "I128", n |-> p.n]
         IN  CASE ~p.ok ->
                    FromHelper(malformed_pattern(st, [kind |-> "MalformedInt"], region), output)
               [] p.ok /\ p.kind = "UnknownNum" ->
                    Arm(fresh(st), output,
                        [tag |-> "NumLiteral", var |-> st.var_store, str |-> str,
                         int |-> int, bound |-> p.bound])
               [] p.ok /\ p.kind = "Int" ->
                    Arm(fresh(fresh(st)), output,
                        [tag |-> "IntLiteral", var |-> st.var_store, precision_var |-> st.var_store + 1,
                         int_str |-> [token |-> str], int |-> int, bound |-> p.bound])
               [] p.ok /\ p.kind = "Float" ->
                    Arm(fresh(fresh(st)), output,
                        [tag |-> "FloatLiteral", var |-> st.var_store, precision_var |-> st.var_store + 1,
                         str |-> str, float |-> p.n * 10, bound |-> p.bound])
    ELSE FromHelper(unsupported_pattern(st, pattern_type, region), output)

\* non_base10_arm negating an unsigned value of full width
non_base10_arm_mut(st, output, pattern_type, string, base, is_negative, region) ==
    IF pattern_type = "WhenBranch"
    THEN LET p == finish_parsing_base(string, base, is_negative)
         IN  CASE ~p.ok ->
                    FromHelper(malformed_pattern(st, [kind |-> "MalformedBase", base |-> base], region),
                               output)
               [] p.ok /\ p.int.kind = "U128" /\ ~is_negative ->
                    ArmAbort(st, output, "unreachable")
               [] OTHER ->
                    Arm(fresh(fresh(st)), output,
                        [tag |-> "IntLiteral", var |-> st.var_store, precision_var |-> st.var_store + 1,
                         int_str |-> [sign |-> IF is_negative THEN "-" ELSE "", int |-> p.int],
                         int |-> [kind |-> "I128",
                                  n |-> IF is_negative THEN -p.int.n ELSE p.int.n],
                         bound |-> p.bound])
    ELSE FromHelper(unsupported_pattern(st, pattern_type, region), output)

non_base10_arm(st, output, pattern_type, string, base, is_negative, region) ==
    IF pattern_type = "WhenBranch"
    THEN LET p == finish_parsing_base(string, base, is_negative)
         IN  CASE ~p.ok ->
                    FromHelper(malformed_pattern(st, [kind |-> "MalformedBase", base |-> base], region),
                               output)
               [] p.ok /\ p.int.kind = "U128" /\ is_negative ->
                    FromHelper(malformed_pattern(st, [kind |-> "MalformedInt"], region), output)
               [] p.ok /\ p.int.kind = "U128" /\ ~is_negative ->
                    ArmAbort(st, output, "unreachable")
               [] p.ok /\ p.int.kind = "I128" ->
                    Arm(fresh(fresh(st)), output,
                        [tag |-> "IntLiteral", var |-> st.var_store, precision_var |-> st.var_store + 1,
                         int_str |-> [sign |-> IF is_negative THEN "-" ELSE "", int |-> p.int],
                         int |-> [kind |-> "I128",
                                  n |-> IF is_negative THEN -p.int.n ELSE p.int.n],
                         bound |-> p.bound])
    ELSE FromHelper(unsupported_pattern(st, pattern_type, region), output)

str_literal_arm(st, output, pattern_type, literal, region) ==
    IF pattern_type = "WhenBranch"
    THEN LET f == flatten_str_literal(literal)
         IN  [st |-> st, output |-> output, value |-> f.value, abort |-> f.abort]
    ELSE FromHelper(unsupported_pattern(st, pattern_type, region), output)

\* single_quote_arm taking the first character of a longer literal
single_quote_arm_mut(st, output, chars, region) ==
    IF Len(chars) >= 1
    THEN Arm(st, output, [tag |-> "SingleQuote", char |-> chars[1]])
    ELSE FromHelper(malformed_pattern(st, [kind |-> "EmptySingleQuote"], region), output)

single_quote_arm(st, output, chars, region) ==
    IF Len(chars) >= 1
    THEN IF Len(chars) = 1
         THEN Arm(st, output, [tag |-> "SingleQuote", char |-> chars[1]])
         ELSE FromHelper(malformed_pattern(st, [kind |-> "MultipleCharsInSingleQuote"], region),
                         output)
    ELSE FromHelper(malformed_pattern(st, [kind |-> "EmptySingleQuote"], region), output)

(***************************************************************************)
(* pattern.rs: canonicalize_pattern and its two loops                      *)
(***************************************************************************)
RECURSIVE canonicalize_pattern(_, _, _, _)
RECURSIVE apply_args(_, _, _, _, _, _)
RECURSIVE record_fields(_, _, _, _, _)

\* the loop over the arguments of an Apply, at argument i
apply_args(st, pattern_type, patterns, i, output, can_patterns) ==
    IF i > Len(patterns)
    THEN [st |-> st, output |-> output, can_patterns |-> can_patterns, abort |-> "none"]
    ELSE LET c == canonicalize_pattern(st, pattern_type, patterns[i].value, patterns[i].region)
         IN  IF c.abort # "none"
             THEN [st |-> c.st, output |-> output, can_patterns |-> can_patterns,
                   abort |-> c.abort]
             ELSE apply_args(fresh(c.st), pattern_type, patterns, i + 1, union(output, c.output),
                             Append(can_patterns, [var |-> c.st.var_store, pat |-> c.pat]))

Destruct(region, var, label, symbol, typ) ==
    Loc(region, [var |-> var, label |-> label, symbol |-> symbol, typ |-> typ])

\* a bare identifier as a field of a record destructure
record_identifier_field(acc, label, field_region, region) ==
    LET i == introduce(acc.st, label, region)
    IN  IF i.ok
        THEN [acc EXCEPT !.st = fresh(i.st),
                         !.output = BindSymbol(@, i.symbol),
                         !.destructs = Append(@, Destruct(field_region, i.st.var_store, label,
                                                          i.symbol, [kind |-> "Required"]))]
        ELSE [acc EXCEPT !.st = shadowing(i.st, i),
                         !.opt_erroneous = [some |-> TRUE, value |-> Shadowed(i)]]

\* record_guard_field with the label introduced into the scope and bound
record_guard_field_mut(acc, pattern_type, label, loc_guard, field_region) ==
    LET g == introduce(acc.st, label, field_region)
        c == canonicalize_pattern(g.st, pattern_type, loc_guard.value, loc_guard.region)
    IN  IF c.abort # "none"
        THEN [acc EXCEPT !.st = c.st, !.abort = c.abort]
        ELSE [acc EXCEPT !.st = fresh(fresh(c.st)),
                         !.output = union(BindSymbol(@, g.symbol), c.output),
                         !.destructs = Append(@, Destruct(field_region, c.st.var_store, label,
                                                          g.symbol,
                                                          [kind |-> "Guard",
                                                           var |-> c.st.var_store + 1,
                                                           pat |-> c.pat]))]

\* a field with a guard sub-pattern
record_guard_field(acc, pattern_type, label, loc_guard, field_region) ==
    LET g == ignore(acc.st, label)
        c == canonicalize_pattern(g.st, pattern_type, loc_guard.value, loc_guard.region)
    IN  IF c.abort # "none"
        THEN [acc EXCEPT !.st = c.st, !.abort = c.abort]
        ELSE [acc EXCEPT !.st = fresh(fresh(c.st)),
                         !.output = union(@, c.output),
                         !.destructs = Append(@, Destruct(field_region, c.st.var_store, label,
                                                          g.symbol,
                                                          [kind |-> "Guard",
                                                           var |-> c.st.var_store + 1,
                                                           pat |-> c.pat]))]

\* a field with a default expression
record_optional_field(acc, label, loc_default, field_region, region) ==
    LET i == introduce(acc.st, label, region)
        e == canonicalize_expr(i.st, loc_default.region, loc_default.value)
    IN  IF i.ok
        THEN [acc EXCEPT !.st = fresh(fresh(e.st)),
                         !.output = union(BindSymbol(@, i.symbol), e.output),
                         !.destructs = Append(@, Destruct(field_region, e.st.var_store, label,
                                                          i.symbol,
                                                          [kind |-> "Optional",
                                                           var |-> e.st.var_store + 1,
                                                           expr |-> e.expr]))]
        ELSE [acc EXCEPT !.st = shadowing(i.st, i),
                         !.opt_erroneous = [some |-> TRUE, value |-> Shadowed(i)]]

\* the loop over the fields of a record destructure, at field i
record_fields(acc, pattern_type, patterns, i, region) ==
    IF i > Len(patterns) \/ acc.abort # "none" THEN acc
    ELSE LET field == patterns[i].value
             next ==
                 CASE field.tag = "Identifier" ->
                        record_identifier_field(acc, field.name, patterns[i].region, region)
                   [] field.tag = "RequiredField" ->
                        record_guard_field(acc, pattern_type, field.label, field.loc_guard,
                                           patterns[i].region)
                   [] field.tag = "OptionalField" ->
                        record_optional_field(acc, field.label, field.loc_default,
                                              patterns[i].region, region)
                   [] OTHER -> [acc EXCEPT !.abort = "unreachable"]
         IN  record_fields(next, pattern_type, patterns, i + 1, region)

canonicalize_pattern(st, pattern_type, pattern, region) ==
    IF pattern.tag \in {"SpaceBefore", "SpaceAfter"}
    THEN canonicalize_pattern(st, pattern_type, pattern.sub_pattern, region)
    ELSE
    LET output == OutputDefault
        a == CASE pattern.tag = "Identifier" -> identifier_arm(st, output, pattern.name, region)
               [] pattern.tag = "GlobalTag" -> global_tag_arm(st, output, pattern.name, <<>>)
               [] pattern.tag = "PrivateTag" -> private_tag_arm(st, output, pattern.name, <<>>)
               [] pattern.tag = "OpaqueRef" -> opaque_ref_arm(st, output, pattern.name, region)
               [] pattern.tag = "Apply" ->
                    LET args == apply_args(st, pattern_type, pattern.patterns, 1, output, <<>>)
                    IN  IF args.abort # "none" THEN ArmAbort(args.st, args.output, args.abort)
                        ELSE apply_tag_arm(args.st, args.output, args.can_patterns,
                                           pattern.head, region)
               [] pattern.tag = "FloatLiteral" ->
                    float_literal_arm(st, output, pattern_type, pattern.str, region)
               [] pattern.tag = "Underscore" -> underscore_arm(st, output, pattern_type, region)
               [] pattern.tag = "NumLiteral" ->
                    num_literal_arm(st, output, pattern_type, pattern.str, region)
               [] pattern.tag = "NonBase10Literal" ->
                    non_base10_arm(st, output, pattern_type, pattern.string, pattern.base,
                                   pattern.is_negative, region)
               [] pattern.tag = "StrLiteral" ->
                    str_literal_arm(st, output, pattern_type, pattern.literal, region)
               [] pattern.tag = "SingleQuote" -> single_quote_arm(st, output, pattern.chars, region)
               [] pattern.tag = "RecordDestructure" ->
                    LET f == record_fields([st |-> fresh(fresh(st)), output |-> output,
                                            destructs |-> <<>>, opt_erroneous |-> [some |-> FALSE],
                                            abort |-> "none"],
                                           pattern_type, pattern.patterns, 1, region)
                    IN  IF f.abort # "none" THEN ArmAbort(f.st, f.output, f.abort)
                        ELSE IF f.opt_erroneous.some THEN Arm(f.st, f.output, f.opt_erroneous.value)
                        ELSE Arm(f.st, f.output,
                                 [tag |-> "RecordDestructure", whole_var |-> st.var_store + 1,
                                  ext_var |-> st.var_store, destructs |-> f.destructs])
               [] pattern.tag \in {"RequiredField", "OptionalField"} ->
                    ArmAbort(st, output, "unreachable")
               [] pattern.tag = "Malformed" ->
                    FromHelper(malformed_pattern(st, [kind |-> "Unknown"], region), output)
               [] pattern.tag = "MalformedIdent" ->
                    FromHelper(malformed_pattern(st, [kind |-> "BadIdent", bad_ident |-> pattern.bad_ident],
                                                 region), output)
               [] pattern.tag = "QualifiedIdentifier" ->
                    FromHelper(malformed_pattern(st, [kind |-> "QualifiedIdentifier"], region), output)
    IN  [st |-> a.st, output |-> a.output, pat |-> Loc(region, a.value), abort |-> a.abort]

\* canonicalize_def_header_pattern taking every identifier for a plain one
canonicalize_def_header_pattern_mut(st, pattern_type, pattern, region) ==
    canonicalize_pattern(st, pattern_type, pattern, region)

canonicalize_def_header_pattern(st, pattern_type, pattern, region) ==
    IF pattern.tag = "Identifier"
    THEN LET output == OutputDefault
             i == introduce_or_shadow_ability_member(st, pattern.name, region)
         IN  IF i.ok
             THEN [st |-> i.st, output |-> BindSymbol(output, i.symbol),
                   pat |-> Loc(region,
                               IF i.shadowing_ability_member.some
                               THEN [tag |-> "AbilityMemberSpecialization", ident |-> i.symbol,
                                     specializes |-> i.shadowing_ability_member.symbol]
                               ELSE [tag |-> "Identifier", symbol |-> i.symbol]),
                   abort |-> "none"]
             ELSE [st |-> shadowing(i.st, i), output |-> BindSymbol(output, i.symbol),
                   pat |-> Loc(region, Shadowed(i)), abort |-> "none"]
    ELSE canonicalize_pattern(st, pattern_type, pattern, region)

(***************************************************************************)
(* pattern.rs: symbol extraction                                           *)
(***************************************************************************)
RECURSIVE symbols_from_pattern_help(_, _)
RECURSIVE symbols_from_arguments(_, _, _)
RECURSIVE symbols_from_destructs(_, _, _)

symbols_from_arguments(arguments, i, symbols) ==
    IF i > Len(arguments) THEN symbols
    ELSE symbols_from_arguments(arguments, i + 1,
                                symbols_from_pattern_help(arguments[i].pat.value, symbols))

\* symbols_from_destructs taking the symbol of every field, guarded or not
RECURSIVE symbols_from_destructs_mut(_, _, _)
symbols_from_destructs_mut(destructs, i, symbols) ==
    IF i > Len(destructs) THEN symbols
    ELSE symbols_from_destructs_mut(destructs, i + 1, Append(symbols, destructs[i].value.symbol))

symbols_from_destructs(destructs, i, symbols) ==
    IF i > Len(destructs) THEN symbols
    ELSE LET destruct == destructs[i]
         IN  symbols_from_destructs(destructs, i + 1,
                IF destruct.value.typ.kind = "Guard"
                THEN symbols_from_pattern_help(destruct.value.typ.pat.value, symbols)
                ELSE Append(symbols, destruct.value.symbol))

symbols_from_pattern_help(pattern, symbols) ==
    CASE pattern.tag \in {"Identifier", "Shadowed"} -> Append(symbols, pattern.symbol)
      [] pattern.tag = "AbilityMemberSpecialization" ->
            Append(Append(symbols, pattern.ident), pattern.specializes)
      [] pattern.tag = "AppliedTag" -> symbols_from_arguments(pattern.arguments, 1, symbols)
      [] pattern.tag = "UnwrappedOpaque" ->
            symbols_from_pattern_help(pattern.argument.pat.value, Append(symbols, pattern.opaque))
      [] pattern.tag = "RecordDestructure" -> symbols_from_destructs(pattern.destructs, 1, symbols)
      [] pattern.tag \in {"NumLiteral", "IntLiteral", "FloatLiteral", "StrLiteral", "SingleQuote",
                          "Underscore", "MalformedPattern", "UnsupportedPattern",
                          "OpaqueNotInScope"} -> symbols

symbols_from_pattern(pattern) == symbols_from_pattern_help(pattern, <<>>)

RECURSIVE add_bindings_from_patterns(_, _, _)
RECURSIVE add_bindings_from_arguments(_, _)
RECURSIVE add_bindings_from_destructs(_, _)
RECURSIVE bindings_from_loc_patterns(_, _, _)

\* the loop of add_bindings_from_patterns over the arguments of an AppliedTag
add_bindings_from_arguments(loc_args, answer) ==
    IF loc_args = <<>> THEN answer
    ELSE add_bindings_from_arguments(Tail(loc_args),
            add_bindings_from_patterns(Head(loc_args).pat.region, Head(loc_args).pat.value, answer))

\* the loop of add_bindings_from_patterns over the destructs of a RecordDestructure
add_bindings_from_destructs(destructs, answer) ==
    IF destructs = <<>> THEN answer
    ELSE add_bindings_from_destructs(Tail(destructs),
            Append(answer, [symbol |-> Head(destructs).value.symbol,
                            region |-> Head(destructs).region]))

\* add_bindings_from_patterns pairing the symbol of an opaque with the region
\* of its argument
add_bindings_from_patterns_mut(region, pattern, answer) ==
    IF pattern.tag = "UnwrappedOpaque"
    THEN Append(add_bindings_from_patterns(pattern.argument.pat.region,
                                           pattern.argument.pat.value, answer),
                [symbol |-> pattern.opaque, region |-> pattern.argument.pat.region])
    ELSE IF pattern.tag \in {"Identifier", "Shadowed"}
    THEN Append(answer, [symbol |-> pattern.symbol, region |-> region])
    ELSE IF pattern.tag = "AbilityMemberSpecialization"
    THEN Append(answer, [symbol |-> pattern.ident, region |-> region])
    ELSE IF pattern.tag = "AppliedTag"
    THEN add_bindings_from_arguments(pattern.arguments, answer)
    ELSE IF pattern.tag = "RecordDestructure"
    THEN add_bindings_from_destructs(pattern.destructs, answer)
    ELSE answer

add_bindings_from_patterns(region, pattern, answer) ==
    CASE pattern.tag \in {"Identifier", "Shadowed"} ->
            Append(answer, [symbol |-> pattern.symbol, region |-> region])
      [] pattern.tag = "AbilityMemberSpecialization" ->
            Append(answer, [symbol |-> pattern.ident, region |-> region])
      [] pattern.tag = "AppliedTag" -> add_bindings_from_arguments(pattern.arguments, answer)
      [] pattern.tag = "UnwrappedOpaque" ->
            Append(add_bindings_from_patterns(pattern.argument.pat.region,
                                              pattern.argument.pat.value, answer),
                   [symbol |-> pattern.opaque, region |-> region])
      [] pattern.tag = "RecordDestructure" ->
            add_bindings_from_destructs(pattern.destructs, answer)
      [] pattern.tag \in {"NumLiteral", "IntLiteral", "FloatLiteral", "StrLiteral", "SingleQuote",
                          "Underscore", "MalformedPattern", "UnsupportedPattern",
                          "OpaqueNotInScope"} -> answer

\* the loop of bindings_from_patterns
bindings_from_loc_patterns(loc_patterns, i, answer) ==
    IF i > Len(loc_patterns) THEN answer
    ELSE bindings_from_loc_patterns(loc_patterns, i + 1,
            add_bindings_from_patterns(loc_patterns[i].region, loc_patterns[i].value, answer))

bindings_from_patterns(loc_patterns) == bindings_from_loc_patterns(loc_patterns, 1, <<>>)

(***************************************************************************)
(* The surface patterns the calls are made on.                             *)
(***************************************************************************)
Identifier(name) == [tag |-> "Identifier", name |-> name]

Underscore == [tag |-> "Underscore", str |-> ""]

GlobalTag(name) == [tag |-> "GlobalTag", name |-> name]

PrivateTag(name) == [tag |-> "PrivateTag", name |-> name]

OpaqueRef(name) == [tag |-> "OpaqueRef", name |-> name]

Apply(region, head, args) ==
    [tag |-> "Apply", head |-> Loc(Child(region, 0), head),
     patterns |-> [i \in 1..Len(args) |-> Loc(Child(region, i), args[i])]]

FloatLiteral(str) == [tag |-> "FloatLiteral", str |-> str]

NumLiteral(str) == [tag |-> "NumLiteral", str |-> str]

NonBase10Literal(string, base, is_negative) ==
    [tag |-> "NonBase10Literal", string |-> string, base |-> base, is_negative |-> is_negative]

StrLiteral(literal) == [tag |-> "StrLiteral", literal |-> literal]

SingleQuote(chars) == [tag |-> "SingleQuote", chars |-> chars]

RecordDestructure(region, fields) ==
    [tag |-> "RecordDestructure",
     patterns |-> [i \in 1..Len(fields) |-> Loc(Child(region, i), fields[i])]]

RequiredField(region, label, guard) ==
    [tag |-> "RequiredField", label |-> label, loc_guard |-> Loc(region, guard)]

OptionalField(region, label, default) ==
    [tag |-> "OptionalField", label |-> label, loc_default |-> Loc(region, default)]

SpaceBefore(sub_pattern) == [tag |-> "SpaceBefore", sub_pattern |-> sub_pattern]

SpaceAfter(sub_pattern) == [tag |-> "SpaceAfter", sub_pattern |-> sub_pattern]

Plaintext(text) == [tag |-> "Plaintext", text |-> text]

Unicode(region) == [tag |-> "Unicode", loc_digits |-> LocName(region, "1F600")]

Interpolated(region) ==
    [tag |-> "Interpolated", loc_expr |-> Loc(region, [tag |-> "Var", ident |-> "x"])]

EscapedChar(escaped) == [tag |-> "EscapedChar", escaped |-> escaped]

Line(segments) == [tag |-> "Line", segments |-> segments]

Block(lines) == [tag |-> "Block", lines |-> lines]

\* the digits of n in the radix, most significant first
RECURSIVE ToDigits(_, _)
ToDigits(n, radix) ==
    IF n < radix THEN <<n>> ELSE Append(ToDigits(n \div radix, radix), n % radix)

Magnitudes == {I128_MAX, I128_MAX + 1, U128_MAX, U128_MAX + 1}

NonBase10Literals ==
    {NonBase10Literal(ToDigits(n, 16), "Hex", neg) : n \in Magnitudes, neg \in BOOLEAN}
    \cup {NonBase10Literal(<<1, 2>>, "Binary", FALSE)}

StrLiterals(r) ==
    {StrLiteral(l) : l \in
        {[tag |-> "PlainLine", text |-> <<"a", "b">>],
         Line(<<Plaintext(<<"a">>), EscapedChar("Newline"), Plaintext(<<"b">>)>>),
         Block(<<<<Plaintext(<<"a">>)>>, <<EscapedChar("Tab"), Plaintext(<<"b">>)>>>>),
         Line(<<Interpolated(Child(r, 1))>>),
         Line(<<Plaintext(<<"a">>), Interpolated(Child(r, 2)), Plaintext(<<"b">>)>>),
         Block(<<<<Plaintext(<<"a">>)>>, <<EscapedChar("Quote"), Interpolated(Child(r, 3))>>>>),
         Line(<<Unicode(Child(r, 1))>>),
         Line(<<Unicode(Child(r, 1)), Interpolated(Child(r, 2))>>),
         Line(<<Interpolated(Child(r, 1)), Unicode(Child(r, 2))>>)}}

\* the literal and wildcard forms, whose treatment depends on the context
Literals(r) ==
    {FloatLiteral(str) : str \in {"1.5", "1.5f32", "1.5.5"}}
    \cup {NumLiteral(str) : str \in {"42", "42u8", "42f64", "4x2"}}
    \cup NonBase10Literals
    \cup StrLiterals(r)
    \cup {SingleQuote(chars) : chars \in {<<>>, <<"a">>, <<"a", "b">>}}
    \cup {Underscore}

Names == {"x", "y"}

Atoms ==
    {Identifier(name) : name \in Names}
    \cup {GlobalTag("Foo"), PrivateTag("Bar"), OpaqueRef("Age"),
          [tag |-> "Malformed", str |-> "?"],
          [tag |-> "MalformedIdent", str |-> "x.", bad_ident |-> "StrayDot"],
          [tag |-> "QualifiedIdentifier", module_name |-> "Mod", ident |-> "x"]}

ArgLists(r) ==
    {<<Identifier("x")>>, <<Identifier("x"), Identifier("x")>>,
     <<Identifier("x"), Identifier("y")>>, <<Underscore>>, <<NumLiteral("42")>>,
     <<Identifier("x"), Underscore>>}

Applies(r) ==
    {Apply(r, head, args) : head \in {GlobalTag("Foo"), PrivateTag("Bar"), OpaqueRef("Age")},
                            args \in ArgLists(r)}
    \cup {Apply(r, OpaqueRef("Age"), <<Apply(Child(r, 1), GlobalTag("Foo"), <<Identifier("x")>>)>>),
          Apply(r, GlobalTag("Foo"),
                <<Apply(Child(r, 1), OpaqueRef("Age"), <<Identifier("x"), Identifier("y")>>)>>),
          Apply(r, GlobalTag("Foo"), <<StrLiteral(Line(<<Unicode(Inner(r, 1))>>))>>)}

Guards(r) ==
    {Underscore, Identifier("y"), Identifier("x"), NumLiteral("42"),
     Apply(r, GlobalTag("Foo"), <<Identifier("y")>>)}

FieldLists(r) ==
    {<<Identifier("x")>>, <<Identifier("x"), Identifier("y")>>,
     <<Identifier("x"), Identifier("x")>>,
     <<Identifier("y"), RequiredField(Inner(r, 2), "y", Underscore)>>,
     <<RequiredField(Inner(r, 1), "y", Underscore), Identifier("y")>>,
     <<OptionalField(Inner(r, 1), "x", [tag |-> "Num", str |-> "42"])>>,
     <<Identifier("x"), OptionalField(Inner(r, 2), "y", [tag |-> "Var", ident |-> "x"])>>,
     <<OptionalField(Inner(r, 1), "x", [tag |-> "Var", ident |-> "y"])>>,
     <<Identifier("x"), OptionalField(Inner(r, 2), "x", [tag |-> "Num", str |-> "42"])>>,
     <<RequiredField(Inner(r, 1), "y",
                     RecordDestructure(Inner(r, 1), <<Identifier("x")>>))>>,
     <<RequiredField(Inner(r, 1), "x", StrLiteral(Line(<<Unicode(Child(Inner(r, 1), 1))>>)))>>}
    \cup {<<Identifier("x"), RequiredField(Inner(r, 2), "y", g)>> : g \in Guards(Inner(r, 2))}

Records(r) == {RecordDestructure(r, fields) : fields \in FieldLists(r)}

Wrapped(r) ==
    {SpaceBefore(Identifier("x")), SpaceAfter(Underscore), SpaceBefore(NumLiteral("42")),
     SpaceAfter(SpaceBefore(Identifier("y"))),
     SpaceBefore(Apply(r, GlobalTag("Foo"), <<Identifier("x")>>)),
     SpaceAfter(RecordDestructure(r, <<Identifier("x")>>))}

\* the (context, pattern) pairs of a call on the node at region r
Inputs(r) ==
    {[pattern_type |-> t, pattern |-> p] : t \in PatternTypes, p \in Literals(r)}
    \cup {[pattern_type |-> t, pattern |-> p] :
            t \in {"DefExpr", "WhenBranch"},
            p \in Atoms \cup Applies(r) \cup Records(r) \cup Wrapped(r)}

(***************************************************************************)
(* The state machine                                                       *)
(***************************************************************************)
Env == [idents |-> idents, opaques |-> opaques, ident_ids |-> ident_ids,
        var_store |-> var_store, problems |-> problems]

NoResult == [output |-> OutputDefault, pat |-> Loc(0, [tag |-> "None"])]

\* a new environment: nothing bound, no diagnostics; the opaque type Age is
\* either defined in the module or not
Init ==
    /\ idents = {}
    /\ \/ opaques = {} /\ ident_ids = <<>>
       \/ opaques = {[name |-> "Age", symbol |-> 1, type_vars |-> 1]} /\ ident_ids = <<"Age">>
    /\ var_store = 0
    /\ problems = <<>>
    /\ call = [fn |-> "none"]
    /\ result = NoResult
    /\ status = "running"
    /\ ncalls = 0

\* the effect of a call that returned r (or aborted) on input in at region r
Returns(fn, in, region, r) ==
    /\ idents' = r.st.idents
    /\ opaques' = opaques
    /\ ident_ids' = r.st.ident_ids
    /\ var_store' = r.st.var_store
    /\ problems' = r.st.problems
    /\ call' = [fn |-> fn, pattern_type |-> in.pattern_type, pattern |-> in.pattern,
                region |-> region, before |-> Env]
    /\ result' = IF r.abort = "none" THEN [output |-> r.output, pat |-> r.pat] ELSE NoResult
    /\ status' = IF r.abort = "none" THEN "running" ELSE r.abort
    /\ ncalls' = ncalls + 1

\* one call of canonicalize_pattern
CanonicalizePattern ==
    /\ status = "running"
    /\ ncalls < MaxCalls
    /\ \E in \in Inputs(ncalls + 1) :
          Returns("canonicalize_pattern", in, ncalls + 1,
                  canonicalize_pattern(Env, in.pattern_type, in.pattern, ncalls + 1))

Next == CanonicalizePattern

Spec == Init /\ [][Next]_vars

\* the patterns of definition headers: those of Inputs and the name of an
\* ability member, bare or under a whitespace wrapper
HeaderInputs(r) ==
    Inputs(r)
    \cup {[pattern_type |-> t, pattern |-> p] :
            t \in {"TopLevelDef", "DefExpr"},
            p \in {Identifier("hash"), Identifier("x"), SpaceBefore(Identifier("hash")),
                   SpaceAfter(Identifier("x"))}}

\* a new environment of a module that declares an ability with the member
\* hash: the member is in scope, and its symbol is in abilities_store
HeaderInit ==
    /\ idents = {[name |-> "hash", symbol |-> 2, region |-> 0]}
    /\ ident_ids = <<"Age", "hash">>
    /\ opaques \in {{}, {[name |-> "Age", symbol |-> 1, type_vars |-> 1]}}
    /\ var_store = 0
    /\ problems = <<>>
    /\ call = [fn |-> "none"]
    /\ result = NoResult
    /\ status = "running"
    /\ ncalls = 0

\* one call of canonicalize_def_header_pattern
CanonicalizeDefHeaderPattern ==
    /\ status = "running"
    /\ ncalls < MaxCalls
    /\ \E in \in HeaderInputs(ncalls + 1) :
          Returns("canonicalize_def_header_pattern", in, ncalls + 1,
                  canonicalize_def_header_pattern(Env, in.pattern_type, in.pattern, ncalls + 1))

HeaderNext == CanonicalizeDefHeaderPattern

\* the headers of the definitions of a module, canonicalized one after another
HeaderSpec == HeaderInit /\ [][HeaderNext]_vars

\* calls of both entry points on one environment, in any order
EnvNext == CanonicalizePattern \/ CanonicalizeDefHeaderPattern

EnvSpec == HeaderInit /\ [][EnvNext]_vars

(***************************************************************************)
(* Symbol extraction as functions of a canonical pattern.  The canonical   *)
(* patterns are drawn from a bounded universe that holds every variant;    *)
(* the symbol of a node is derived from its region, so the symbols of one  *)
(* pattern are distinct.                                                   *)
(***************************************************************************)
\* the variants without sub-patterns, for the node at region q
BindingLeaves(q) ==
    {[tag |-> "Identifier", symbol |-> q],
     [tag |-> "Shadowed", original_region |-> 0, shadow |-> LocName(q, "x"), symbol |-> q],
     [tag |-> "AbilityMemberSpecialization", ident |-> q, specializes |-> 1000 + q]}

OtherLeaves(q) ==
    {[tag |-> "Underscore"],
     [tag |-> "NumLiteral", var |-> 0, str |-> "42", int |-> [kind |-> "I128", n |-> 42],
      bound |-> "None"],
     [tag |-> "IntLiteral", var |-> 0, precision_var |-> 1, int_str |-> [token |-> "42u8"],
      int |-> [kind |-> "I128", n |-> 42], bound |-> "U8"],
     [tag |-> "FloatLiteral", var |-> 0, precision_var |-> 1, str |-> "1.5", float |-> 15,
      bound |-> "None"],
     [tag |-> "StrLiteral", text |-> <<"a">>],
     [tag |-> "SingleQuote", char |-> "a"],
     [tag |-> "MalformedPattern", problem |-> [kind |-> "Unknown"], region |-> q],
     [tag |-> "UnsupportedPattern", region |-> q],
     [tag |-> "OpaqueNotInScope", loc_name |-> LocName(q, "Age")]}

NestedLeaves(q) == BindingLeaves(q) \cup {[tag |-> "Underscore"]}

Argument(q, value) == [var |-> 0, pat |-> Loc(q, value)]

CanAppliedTag(arguments) == AppliedTag(0, [kind |-> "Global", name |-> "Foo", symbol |-> 0], arguments)

CanUnwrappedOpaque(q, argument) ==
    [tag |-> "UnwrappedOpaque", whole_var |-> 0, opaque |-> 2000 + q, argument |-> argument,
     type_arguments |-> <<>>]

CanRecordDestructure(destructs) ==
    [tag |-> "RecordDestructure", whole_var |-> 1, ext_var |-> 0, destructs |-> destructs]

\* the destructs a field at region q can be
Destructs(q) ==
    {Destruct(q, 0, "x", q, [kind |-> "Required"]),
     Destruct(q, 0, "x", q,
              [kind |-> "Optional", var |-> 1, expr |-> Loc(Child(q, 1), [tag |-> "Num", var |-> 2])])}
    \cup {Destruct(q, 0, "y", q, [kind |-> "Guard", var |-> 1, pat |-> Loc(Child(q, 1), g)]) :
            g \in NestedLeaves(Child(q, 1))}

\* the patterns with sub-patterns, one level deep, for the node at region q
Composites(q) ==
    {CanAppliedTag(<<>>)}
    \cup {CanAppliedTag(<<Argument(Child(q, 1), a)>>) : a \in NestedLeaves(Child(q, 1))}
    \cup {CanAppliedTag(<<Argument(Child(q, 1), a), Argument(Child(q, 2), b)>>) :
            a \in NestedLeaves(Child(q, 1)), b \in BindingLeaves(Child(q, 2))}
    \cup {CanUnwrappedOpaque(q, Argument(Child(q, 1), a)) : a \in NestedLeaves(Child(q, 1))}
    \cup {CanRecordDestructure(<<d>>) : d \in Destructs(Child(q, 1))}
    \cup {CanRecordDestructure(<<d, e>>) : d \in Destructs(Child(q, 1)), e \in Destructs(Child(q, 2))}

\* the patterns two levels deep
Nested(q) ==
    {CanAppliedTag(<<Argument(Child(q, 1), c)>>) : c \in Composites(Child(q, 1))}
    \cup {CanUnwrappedOpaque(q, Argument(Child(q, 1), c)) : c \in Composites(Child(q, 1))}
    \cup {CanRecordDestructure(<<Destruct(Child(q, 1), 0, "y", Child(q, 1),
                                          [kind |-> "Guard", var |-> 1,
                                           pat |-> Loc(Inner(q, 1), c)])>>) :
            c \in Composites(Inner(q, 1))}

CanonicalPatterns(q) ==
    BindingLeaves(q) \cup OtherLeaves(q) \cup Composites(q) \cup Nested(q)

\* the sequences of located patterns the extractions are applied to
PatternLists ==
    {<<>>}
    \cup {<<Loc(1, p)>> : p \in CanonicalPatterns(1)}
    \cup {<<Loc(1, p), Loc(2, q)>> :
            p \in NestedLeaves(1) \cup {CanUnwrappedOpaque(1, Argument(11, [tag |-> "Identifier", symbol |-> 11]))},
            q \in BindingLeaves(2) \cup {CanRecordDestructure(<<Destruct(21, 0, "x", 21, [kind |-> "Required"])>>)}}

\* a canonical pattern, or a list of them, is at hand
ExtractInit ==
    /\ idents = {}
    /\ opaques = {}
    /\ ident_ids = <<>>
    /\ var_store = 0
    /\ problems = <<>>
    /\ call \in {[fn |-> "none", loc_patterns |-> ps] : ps \in PatternLists}
    /\ result = NoResult
    /\ status = "running"
    /\ ncalls = 0

\* one call of symbols_from_pattern
SymbolsFromPattern ==
    /\ call.fn = "none"
    /\ Len(call.loc_patterns) = 1
    /\ call' = [call EXCEPT !.fn = "symbols_from_pattern"]
    /\ result' = [symbols |-> symbols_from_pattern(call.loc_patterns[1].value)]
    /\ ncalls' = ncalls + 1
    /\ UNCHANGED <<idents, opaques, ident_ids, var_store, problems, status>>

\* one call of bindings_from_patterns
BindingsFromPatterns ==
    /\ call.fn = "none"
    /\ call' = [call EXCEPT !.fn = "bindings_from_patterns"]
    /\ result' = [bindings |-> bindings_from_patterns(call.loc_patterns)]
    /\ ncalls' = ncalls + 1
    /\ UNCHANGED <<idents, opaques, ident_ids, var_store, problems, status>>

ExtractNext == SymbolsFromPattern \/ BindingsFromPatterns

ExtractSpec == ExtractInit /\ [][ExtractNext]_vars

(***************************************************************************)
(* The parser's State (compiler/parse/src/state.rs).  bytes is always a    *)
(* suffix of the input and is represented by its length; the widths of     *)
(* u16, u32 and usize are scaled to ColumnBits, PositionBits and UsizeBits.*)
(* The current State is result.state; call holds the State before the      *)
(* most recent call and the call's argument.                               *)
(***************************************************************************)
\* width, in bits, standing for the 16 bits of a column
ColumnBits == 2
\* width, in bits, standing for the 32 bits of a Position
PositionBits == 3
\* width, in bits, standing for the bits of usize
UsizeBits == 4

U16_MAX == Pow2(ColumnBits) - 1

USIZE_MAX == Pow2(UsizeBits) - 1

\* State::new
State_new(bytes_len) ==
    [bytes_len |-> bytes_len, input_len |-> bytes_len, column |-> 0, indent_column |-> 0]

\* the values of a Position (u32)
Positions == 0..(Pow2(PositionBits) - 1)

\* State::pos: the offset from the start of the input, cast to u32
pos(state) == (state.input_len - state.bytes_len) % Pow2(PositionBits)

\* State::advance: slicing beyond the end of bytes panics
advance(state, offset) ==
    IF offset > state.bytes_len
    THEN [abort |-> "slice_index", state |-> state]
    ELSE [abort |-> "none", state |-> [state EXCEPT !.bytes_len = @ - offset]]

\* usize::checked_add
checked_add(a, b) == IF a + b > USIZE_MAX THEN [some |-> FALSE, n |-> 0] ELSE [some |-> TRUE, n |-> a + b]

\* State::advance_without_indenting_ee: the column is checked first, then
\* bytes is sliced, which panics beyond its end
advance_without_indenting_ee(state, quantity, to_error) ==
    LET sum == checked_add(state.column, quantity)
    IN  IF sum.some /\ sum.n <= U16_MAX
        THEN IF quantity > state.bytes_len
             THEN [abort |-> "slice_index", state |-> state]
             ELSE [abort |-> "none", tag |-> "Ok",
                   state |-> [state EXCEPT !.bytes_len = @ - quantity, !.column = sum.n]]
        ELSE [abort |-> "none", tag |-> "Err", progress |-> "NoProgress",
              error |-> to_error[pos(state)], state |-> state]

\* State::advance_without_indenting_e
advance_without_indenting_e(state, quantity, to_error) ==
    advance_without_indenting_ee(state, quantity,
                                 [p \in Positions |-> to_error[<<"LineTooLong", p>>]])

\* the error constructors the parsers pass, as functions
ToError == [p \in Positions |-> [bad_input |-> "None", pos |-> p]]

ToBadInputError ==
    [a \in {"LineTooLong"} \X Positions |-> [bad_input |-> a[1], pos |-> a[2]]]

\* a State over an input of any length, at an indentation the parser has set
StateInit ==
    /\ idents = {}
    /\ opaques = {}
    /\ ident_ids = <<>>
    /\ var_store = 0
    /\ problems = <<>>
    /\ call = [fn |-> "none"]
    /\ \E n \in 0..USIZE_MAX, indent \in {0, 1} :
          result = [tag |-> "State", state |-> [State_new(n) EXCEPT !.indent_column = indent]]
    /\ status = "running"
    /\ ncalls = 0

\* the effect of a call that returned r, or panicked, on the State
StateReturns(fn, argument, r) ==
    /\ call' = [fn |-> fn, state |-> result.state, quantity |-> argument]
    /\ result' = IF r.abort = "none" THEN r ELSE [tag |-> "None", state |-> result.state]
    /\ status' = IF r.abort = "none" THEN "running" ELSE r.abort
    /\ ncalls' = ncalls + 1
    /\ UNCHANGED <<idents, opaques, ident_ids, var_store, problems>>

Advance ==
    /\ status = "running"
    /\ ncalls < MaxCalls
    /\ \E offset \in 0..USIZE_MAX :
          LET r == advance(result.state, offset)
          IN  StateReturns("advance", offset, [abort |-> r.abort, tag |-> "State", state |-> r.state])

AdvanceWithoutIndentingE ==
    /\ status = "running"
    /\ ncalls < MaxCalls
    /\ \E quantity \in 0..USIZE_MAX :
          StateReturns("advance_without_indenting_e", quantity,
                       advance_without_indenting_e(result.state, quantity, ToBadInputError))

AdvanceWithoutIndentingEE ==
    /\ status = "running"
    /\ ncalls < MaxCalls
    /\ \E quantity \in 0..USIZE_MAX :
          StateReturns("advance_without_indenting_ee", quantity,
                       advance_without_indenting_ee(result.state, quantity, ToError))

StateNext == Advance \/ AdvanceWithoutIndentingE \/ AdvanceWithoutIndentingEE

StateSpec == StateInit /\ [][StateNext]_vars

(***************************************************************************)
(* Properties.  They speak of the most recent call: its arguments and the  *)
(* environment before it (call), what it returned (result) and the         *)
(* environment after it (the state variables).                             *)
(***************************************************************************)
Called == call.fn = "canonicalize_pattern"

Returned == Called /\ status = "running"

\* the diagnostics the most recent call appended
Appended == SubSeq(problems, Len(call.before.problems) + 1, Len(problems))

\* the pattern under its whitespace wrappers
RECURSIVE Unwrap(_)
Unwrap(pattern) ==
    IF pattern.tag \in {"SpaceBefore", "SpaceAfter"} THEN Unwrap(pattern.sub_pattern) ELSE pattern

UnsupportedAt(region) == [tag |-> "UnsupportedPattern", region |-> region]

RECURSIVE Flatten(_)
Flatten(lines) == IF lines = <<>> THEN <<>> ELSE Head(lines) \o Flatten(Tail(lines))

\* the segments of a string literal, in source order
Segments(literal) ==
    CASE literal.tag = "PlainLine" -> <<>>
      [] literal.tag = "Line" -> literal.segments
      [] literal.tag = "Block" -> Flatten(literal.lines)

HasSegment(literal, kind) == \E i \in 1..Len(Segments(literal)) : Segments(literal)[i].tag = kind

\* C1: every call of canonicalize_pattern on a well-formed surface pattern, in
\* every context, returns a value: no call aborts (panic, todo!, unreachable!).
C1_Totality == Called => status = "running"

LiteralForms == {"FloatLiteral", "NumLiteral", "NonBase10Literal", "StrLiteral", "SingleQuote"}

LiteralNodes == {"FloatLiteral", "NumLiteral", "IntLiteral", "StrLiteral", "SingleQuote"}

\* a literal the classifier accepts, a string without interpolation, a
\* single-quoted literal of one character
WellFormedLiteral(pattern) ==
    CASE pattern.tag = "FloatLiteral" -> finish_parsing_float(pattern.str).ok
      [] pattern.tag = "NumLiteral" -> finish_parsing_num(pattern.str).ok
      [] pattern.tag = "NonBase10Literal" ->
            finish_parsing_base(pattern.string, pattern.base, pattern.is_negative).ok
      [] pattern.tag = "StrLiteral" -> ~HasSegment(pattern.literal, "Interpolated")
      [] pattern.tag = "SingleQuote" -> Len(pattern.chars) = 1

\* C2: a literal pattern (float, num, non-decimal-base, string, single-quoted
\* char) outside WhenBranch yields UnsupportedPattern and one
\* Unsupported(context) diagnostic; a well-formed literal under WhenBranch
\* yields its literal node and no diagnostic.
C2_LiteralContextGating ==
    Called /\ call.pattern.tag \in LiteralForms =>
        IF call.pattern_type # "WhenBranch"
        THEN /\ status = "running"
             /\ result.pat.value = UnsupportedAt(call.region)
             /\ Appended = <<[tag |-> "UnsupportedPattern",
                              bad |-> [kind |-> "Unsupported", pattern_type |-> call.pattern_type],
                              region |-> call.region]>>
        ELSE WellFormedLiteral(call.pattern) =>
                /\ status = "running"
                /\ result.pat.value.tag \in LiteralNodes
                /\ Appended = <<>>

\* C3: the wildcard yields Underscore and no diagnostic under WhenBranch and
\* FunctionArg, UnsupportedPattern(region) and exactly one UnderscoreInDef
\* diagnostic under TopLevelDef and DefExpr; it binds no symbol and leaves the
\* scope as it was.
C3_UnderscoreGating ==
    Called /\ Unwrap(call.pattern).tag = "Underscore" =>
        /\ status = "running"
        /\ result.output.bound_symbols = {}
        /\ idents = call.before.idents
        /\ IF call.pattern_type \in {"WhenBranch", "FunctionArg"}
           THEN result.pat.value = [tag |-> "Underscore"] /\ Appended = <<>>
           ELSE /\ result.pat.value = UnsupportedAt(call.region)
                /\ Appended = <<[tag |-> "UnsupportedPattern", bad |-> [kind |-> "UnderscoreInDef"],
                                 region |-> call.region]>>

C3_Witness ==
    /\ Called
    /\ call.pattern.tag = "Underscore"
    /\ call.pattern_type = "TopLevelDef"
    /\ result.pat.value.tag = "UnsupportedPattern"
    /\ Len(Appended) = 1

ShadowingOf(original_region, shadow) ==
    [tag |-> "Shadowing", original_region |-> original_region, shadow |-> shadow]

\* an identifier whose name the scope already binds
ShadowCaseIdentifier ==
    LET pattern == Unwrap(call.pattern)
        name == pattern.name
        old == Binding(call.before, name)
        v == result.pat.value
    IN  pattern.tag = "Identifier" /\ InScope(call.before, name) =>
            /\ status = "running"
            /\ Appended = <<ShadowingOf(old.region, LocName(call.region, name))>>
            /\ v.tag = "Shadowed"
            /\ v.original_region = old.region
            /\ v.shadow = LocName(call.region, name)
            /\ v.symbol # old.symbol
            /\ v.symbol > Len(call.before.ident_ids)
            /\ ident_ids[v.symbol] = name
            /\ Binding(Env, name).symbol = v.symbol
            /\ symbols_from_pattern(v) = <<v.symbol>>

SameNameTwice(patterns) ==
    /\ Len(patterns) = 2
    /\ patterns[1].value.tag = "Identifier"
    /\ patterns[2].value.tag = "Identifier"
    /\ patterns[1].value.name = patterns[2].value.name

\* a tag applied to the same identifier twice
ShadowCaseTagArguments ==
    LET pattern == Unwrap(call.pattern)
        args == pattern.patterns
        name == args[1].value.name
        v == result.pat.value
        a1 == v.arguments[1].pat.value
        a2 == v.arguments[2].pat.value
        second == ShadowingOf(args[1].region, LocName(args[2].region, name))
    IN  /\ pattern.tag = "Apply"
        /\ pattern.head.value.tag \in {"GlobalTag", "PrivateTag"}
        /\ SameNameTwice(args)
        =>  /\ status = "running"
            /\ v.tag = "AppliedTag"
            /\ a2.tag = "Shadowed"
            /\ a2.original_region = args[1].region
            /\ a2.shadow = LocName(args[2].region, name)
            /\ a2.symbol # a1.symbol
            /\ ident_ids[a1.symbol] = name
            /\ ident_ids[a2.symbol] = name
            /\ Binding(Env, name).symbol = a2.symbol
            /\ symbols_from_pattern(v) = <<a1.symbol, a2.symbol>>
            /\ IF InScope(call.before, name)
               THEN /\ a1.tag = "Shadowed"
                    /\ Appended = <<ShadowingOf(Binding(call.before, name).region,
                                                LocName(args[1].region, name)), second>>
               ELSE /\ a1.tag = "Identifier"
                    /\ Appended = <<second>>

\* a record destructure of bare fields, some of which collide with the scope
\* or with an earlier field
ShadowCaseRecordFields ==
    LET pattern == Unwrap(call.pattern)
        fields == pattern.patterns
        name(i) == fields[i].value.name
        Earlier(i) == \E j \in 1..(i - 1) : name(j) = name(i)
        Collides(i) == InScope(call.before, name(i)) \/ Earlier(i)
        colliding == {i \in 1..Len(fields) : Collides(i)}
        last == CHOOSE i \in colliding : \A j \in colliding : j <= i
        symbol(i) == Len(call.before.ident_ids) + i
        v == result.pat.value
    IN  /\ pattern.tag = "RecordDestructure"
        /\ \A i \in 1..Len(fields) : fields[i].value.tag = "Identifier"
        =>  /\ status = "running"
            /\ Len(Appended) = Cardinality(colliding)
            /\ \A k \in 1..Len(Appended) : Appended[k].tag = "Shadowing"
            /\ colliding = {} => v.tag = "RecordDestructure"
            /\ colliding # {} =>
                /\ v.tag = "Shadowed"
                /\ v.symbol = symbol(last)
                /\ ident_ids[v.symbol] = name(last)
                /\ v.shadow = LocName(call.region, name(last))
                /\ v.original_region =
                      IF Earlier(last) THEN call.region
                      ELSE Binding(call.before, name(last)).region
                /\ Appended[Len(Appended)] = ShadowingOf(v.original_region, v.shadow)
                /\ Binding(Env, name(last)).symbol = v.symbol
                /\ symbols_from_pattern(v) = <<v.symbol>>

\* C4: a name introduced a second time in one scope (as a plain identifier, a
\* tag argument or a record field) appends exactly one Shadowing diagnostic
\* carrying the region of the original binding, and the Shadowed node and the
\* symbol extraction both carry the new symbol, not the first one.
C4_ShadowLaw ==
    Called => ShadowCaseIdentifier /\ ShadowCaseTagArguments /\ ShadowCaseRecordFields

C4_Witness ==
    /\ Returned
    /\ call.pattern.tag = "Apply"
    /\ call.pattern.head.value.tag = "GlobalTag"
    /\ SameNameTwice(call.pattern.patterns)
    /\ ~InScope(call.before, call.pattern.patterns[1].value.name)
    /\ result.pat.value.arguments[2].pat.value.tag = "Shadowed"
    /\ Len(Appended) = 1

\* the symbols interned during the most recent call
Interned == (Len(call.before.ident_ids) + 1)..Len(ident_ids)

\* the binding sites of a pattern that is an identifier or a record
\* destructure of bare and optional fields
BindingSites(pattern) ==
    IF pattern.tag = "Identifier" THEN 1 ELSE Len(pattern.patterns)

OnlyBindingSites(pattern) ==
    \/ pattern.tag = "Identifier"
    \/ /\ pattern.tag = "RecordDestructure"
       /\ \A i \in 1..Len(pattern.patterns) :
             pattern.patterns[i].value.tag \in {"Identifier", "OptionalField"}

\* C5: every binding site (a plain identifier, a bare record field, an optional
\* record field) contributes exactly one symbol to Output.bound_symbols,
\* whether its introduction succeeds or collides, and on a collision that
\* symbol is the new one.
C5_OneSymbolPerBindingSite ==
    Returned /\ OnlyBindingSites(Unwrap(call.pattern)) =>
        /\ Cardinality(result.output.bound_symbols) = BindingSites(Unwrap(call.pattern))
        /\ result.output.bound_symbols = Interned

\* the names a surface pattern has at its binding sites: plain identifiers,
\* bare and optional record fields, and the binding sites of guard
\* sub-patterns; the label of a guarded field is not one
RECURSIVE BindingNames(_)
BindingNames(pattern) ==
    CASE pattern.tag = "Identifier" -> {pattern.name}
      [] pattern.tag \in {"SpaceBefore", "SpaceAfter"} -> BindingNames(pattern.sub_pattern)
      [] pattern.tag = "Apply" ->
            UNION {BindingNames(pattern.patterns[i].value) : i \in 1..Len(pattern.patterns)}
      [] pattern.tag = "RecordDestructure" ->
            UNION {BindingNames(pattern.patterns[i].value) : i \in 1..Len(pattern.patterns)}
      [] pattern.tag = "OptionalField" -> {pattern.label}
      [] pattern.tag = "RequiredField" -> BindingNames(pattern.loc_guard.value)
      [] OTHER -> {}

GuardFields(pattern) ==
    {i \in 1..Len(pattern.patterns) : pattern.patterns[i].value.tag = "RequiredField"}

\* the symbols the most recent call reports as bound, in its Output or
\* through symbol extraction from the pattern it returned
ReportedSymbols ==
    result.output.bound_symbols \cup Range(symbols_from_pattern(result.pat.value))

\* what holds of a guarded field whatever else the destructure contains: the
\* field becomes a destruct of kind Guard, and the symbol interned for its
\* label is neither bound in the scope nor reported
GuardFieldIsNoBinding(pattern, i) ==
    LET v == result.pat.value
        d == v.destructs[i].value
    IN  v.tag = "RecordDestructure" =>
            /\ d.typ.kind = "Guard"
            /\ d.label = pattern.patterns[i].value.label
            /\ ident_ids[d.symbol] = d.label
            /\ d.symbol \notin ReportedSymbols
            /\ \A b \in idents : b.symbol # d.symbol

\* { x, y: guardPat } in a scope that binds neither name
ScenarioA(pattern) ==
    LET v == result.pat.value
        x == v.destructs[1].value
        y == v.destructs[2].value
    IN  /\ Len(pattern.patterns) = 2
        /\ pattern.patterns[1].value = Identifier("x")
        /\ pattern.patterns[2].value.tag = "RequiredField"
        /\ pattern.patterns[2].value.label = "y"
        /\ call.before.idents = {}
        =>  /\ v.tag = "RecordDestructure"
            /\ Len(v.destructs) = 2
            /\ x.label = "x" /\ x.typ.kind = "Required" /\ ident_ids[x.symbol] = "x"
            /\ y.label = "y" /\ y.typ.kind = "Guard"
            /\ symbols_from_pattern(v) = <<x.symbol>> \o symbols_from_pattern(y.typ.pat.value)
            /\ x.symbol \in result.output.bound_symbols

\* C6 as claimed: for a record field with a guard (label: guardPat) no reported
\* symbol is named like the label unless the label name occurs as an
\* identifier inside the guard.
C6_GuardLawAsClaimed ==
    Returned /\ Unwrap(call.pattern).tag = "RecordDestructure" =>
        \A i \in GuardFields(Unwrap(call.pattern)) :
            LET field == Unwrap(call.pattern).patterns[i].value
            IN  /\ GuardFieldIsNoBinding(Unwrap(call.pattern), i)
                /\ \A symbol \in ReportedSymbols :
                      ident_ids[symbol] = field.label =>
                          field.label \in BindingNames(field.loc_guard.value)

\* C6 (amended): for a record field with a guard (label: guardPat) the field
\* becomes a RecordDestruct of kind Guard, its label is not introduced into the
\* scope, and no reported symbol is named like the label unless the label name
\* occurs at a binding site of the destructure: as an identifier inside the
\* guard, or as another bare or optional field.  { x, y: guardPat } in a fresh
\* scope yields the destructs [x Required, y Guard] and the extraction
\* x' followed by the symbols of guardPat'.
C6_GuardLaw ==
    Returned /\ Unwrap(call.pattern).tag = "RecordDestructure" =>
        /\ ScenarioA(Unwrap(call.pattern))
        /\ \A i \in GuardFields(Unwrap(call.pattern)) :
              LET field == Unwrap(call.pattern).patterns[i].value
              IN  /\ GuardFieldIsNoBinding(Unwrap(call.pattern), i)
                  /\ \A symbol \in ReportedSymbols :
                        ident_ids[symbol] = field.label =>
                            field.label \in BindingNames(Unwrap(call.pattern))
                  /\ InScope(Env, field.label) =>
                        \/ InScope(call.before, field.label)
                        \/ field.label \in BindingNames(Unwrap(call.pattern))

C6_Witness ==
    /\ Returned
    /\ call.pattern.tag = "RecordDestructure"
    /\ Len(call.pattern.patterns) = 2
    /\ call.pattern.patterns[1].value = Identifier("x")
    /\ call.pattern.patterns[2].value.tag = "RequiredField"
    /\ call.pattern.patterns[2].value.loc_guard.value.tag = "Apply"
    /\ call.before.idents = {}
    /\ result.pat.value.tag = "RecordDestructure"
    /\ result.pat.value.destructs[2].value.typ.kind = "Guard"
    /\ result.pat.value.destructs[2].value.symbol \notin ReportedSymbols
    /\ \E symbol \in ReportedSymbols : ident_ids[symbol] = "y"

OpaqueInScope(name) == \E o \in call.before.opaques : o.name = name

AppliedOpaque(pattern) == pattern.tag = "Apply" /\ pattern.head.value.tag = "OpaqueRef"

\* a bare opaque reference: UnsupportedPattern and one OpaqueNotApplied diagnostic
BareOpaqueRejected ==
    Unwrap(call.pattern).tag = "OpaqueRef" =>
        /\ status = "running"
        /\ result.pat.value = UnsupportedAt(call.region)
        /\ Appended = <<[tag |-> "OpaqueNotApplied",
                         loc_name |-> LocName(call.region, Unwrap(call.pattern).name)]>>

\* the call ended in UnsupportedPattern with an OpaqueAppliedToMultipleArgs diagnostic
MultipleArgsRejected ==
    /\ status = "running"
    /\ result.pat.value = UnsupportedAt(call.region)
    /\ Appended # <<>>
    /\ Appended[Len(Appended)] = [tag |-> "OpaqueAppliedToMultipleArgs", region |-> call.region]

\* C7 as claimed: a bare opaque reference yields UnsupportedPattern and
\* OpaqueNotApplied, an opaque reference applied to two or more arguments
\* yields UnsupportedPattern and OpaqueAppliedToMultipleArgs, both whether or
\* not the opaque name is in scope.
C7_OpaqueArityLawAsClaimed ==
    Called =>
        /\ BareOpaqueRejected
        /\ AppliedOpaque(Unwrap(call.pattern)) /\ Len(Unwrap(call.pattern).patterns) >= 2 =>
              MultipleArgsRejected

\* C7 (amended): a bare opaque reference yields UnsupportedPattern and
\* OpaqueNotApplied whether or not the name is in scope; an opaque reference
\* applied to two or more arguments yields UnsupportedPattern and
\* OpaqueAppliedToMultipleArgs when the opaque name is found in scope, and
\* OpaqueNotInScope with the lookup's diagnostic when it is not.
C7_OpaqueArityLaw ==
    Called =>
        /\ BareOpaqueRejected
        /\ AppliedOpaque(Unwrap(call.pattern)) /\ Len(Unwrap(call.pattern).patterns) >= 2 =>
              LET head == Unwrap(call.pattern).head
              IN  IF OpaqueInScope(head.value.name)
                  THEN MultipleArgsRejected
                  ELSE /\ status = "running"
                       /\ result.pat.value =
                             [tag |-> "OpaqueNotInScope",
                              loc_name |-> LocName(head.region, head.value.name)]
                       /\ Appended # <<>>
                       /\ Appended[Len(Appended)] =
                             [tag |-> "OpaqueNotDefined",
                              usage |-> LocName(head.region, head.value.name)]

C7_Witness ==
    /\ Returned
    /\ AppliedOpaque(call.pattern)
    /\ Len(call.pattern.patterns) = 2
    /\ OpaqueInScope(call.pattern.head.value.name)
    /\ result.pat.value.tag = "UnsupportedPattern"
    /\ Appended[Len(Appended)].tag = "OpaqueAppliedToMultipleArgs"

\* C8: an opaque reference applied to exactly one argument yields, when the
\* name is in scope, UnwrappedOpaque with the opaque's symbol and the
\* canonicalized argument, the symbol being inserted into referenced_type_defs
\* and type_lookups; when it is not, OpaqueNotInScope(name) and exactly one
\* diagnostic beyond those of the argument, nothing being added to either set.
C8_AppliedOpaqueOneArgument ==
    Called /\ AppliedOpaque(Unwrap(call.pattern)) /\ Len(Unwrap(call.pattern).patterns) = 1 =>
        LET head == Unwrap(call.pattern).head
            arg == Unwrap(call.pattern).patterns[1]
            sub == canonicalize_pattern(call.before, call.pattern_type, arg.value, arg.region)
            v == result.pat.value
        IN  /\ status = "running"
            /\ IF OpaqueInScope(head.value.name)
               THEN LET o == CHOOSE o \in call.before.opaques : o.name = head.value.name
                    IN  /\ v.tag = "UnwrappedOpaque"
                        /\ v.opaque = o.symbol
                        /\ v.argument.pat = sub.pat
                        /\ o.symbol \in result.output.referenced_type_defs
                        /\ o.symbol \in result.output.type_lookups
                        /\ result.output.bound_symbols = sub.output.bound_symbols
                        /\ problems = sub.st.problems
               ELSE /\ v = [tag |-> "OpaqueNotInScope",
                            loc_name |-> LocName(head.region, head.value.name)]
                    /\ problems = Append(sub.st.problems,
                                         [tag |-> "OpaqueNotDefined",
                                          usage |-> LocName(head.region, head.value.name)])
                    /\ result.output = sub.output
                    /\ \A symbol \in result.output.referenced_type_defs \cup result.output.type_lookups :
                          ident_ids[symbol] # head.value.name

C8_Witness ==
    /\ Returned
    /\ AppliedOpaque(call.pattern)
    /\ Len(call.pattern.patterns) = 1
    /\ result.pat.value.tag = "UnwrappedOpaque"
    /\ result.pat.value.opaque \in result.output.type_lookups
    /\ result.pat.value.argument.pat.value.tag = "Identifier"

\* C9: a single-quoted literal of no character yields
\* MalformedPattern(EmptySingleQuote), one of several characters
\* MalformedPattern(MultipleCharsInSingleQuote), each with exactly one
\* MalformedPattern diagnostic; one of exactly one character c yields
\* SingleQuote(c) and no diagnostic.
C9_CharLiteralLaw ==
    Called /\ Unwrap(call.pattern).tag = "SingleQuote" =>
        LET chars == Unwrap(call.pattern).chars
            Malformed(kind) ==
                /\ result.pat.value = [tag |-> "MalformedPattern", problem |-> [kind |-> kind],
                                       region |-> call.region]
                /\ Appended = <<[tag |-> "MalformedPattern", problem |-> [kind |-> kind],
                                 region |-> call.region]>>
        IN  /\ status = "running"
            /\ Len(chars) = 0 => Malformed("EmptySingleQuote")
            /\ Len(chars) > 1 => Malformed("MultipleCharsInSingleQuote")
            /\ Len(chars) = 1 =>
                  result.pat.value = [tag |-> "SingleQuote", char |-> chars[1]] /\ Appended = <<>>

C9_Witness ==
    /\ Returned
    /\ call.pattern.tag = "SingleQuote"
    /\ Len(call.pattern.chars) = 2
    /\ result.pat.value.tag = "MalformedPattern"
    /\ result.pat.value.problem.kind = "MultipleCharsInSingleQuote"
    /\ Len(Appended) = 1

\* the region of the first interpolation segment of a string literal
FirstInterpolation(literal) ==
    LET segments == Segments(literal)
        first == CHOOSE i \in 1..Len(segments) :
                    /\ segments[i].tag = "Interpolated"
                    /\ \A j \in 1..(i - 1) : segments[j].tag # "Interpolated"
    IN  segments[first].loc_expr.region

\* C10: under WhenBranch a string literal with an interpolation segment at any
\* position yields UnsupportedPattern at the interpolation's own region,
\* whatever segments come before or after it, and none of the text gathered
\* so far is kept.
C10_InterpolationInStrLiteral ==
    /\ Called
    /\ call.pattern_type = "WhenBranch"
    /\ Unwrap(call.pattern).tag = "StrLiteral"
    /\ HasSegment(Unwrap(call.pattern).literal, "Interpolated")
    =>  /\ status = "running"
        /\ result.pat.value = UnsupportedAt(FirstInterpolation(Unwrap(call.pattern).literal))

\* the sentinel nodes of a canonical pattern, depth first
RECURSIVE SentinelNodes(_)
RECURSIVE SentinelsOfArguments(_, _)
RECURSIVE SentinelsOfDestructs(_, _)
SentinelsOfArguments(arguments, i) ==
    IF i > Len(arguments) THEN <<>>
    ELSE SentinelNodes(arguments[i].pat.value) \o SentinelsOfArguments(arguments, i + 1)

SentinelsOfDestructs(destructs, i) ==
    IF i > Len(destructs) THEN <<>>
    ELSE (IF destructs[i].value.typ.kind = "Guard"
          THEN SentinelNodes(destructs[i].value.typ.pat.value)
          ELSE <<>>) \o SentinelsOfDestructs(destructs, i + 1)

SentinelNodes(pattern) ==
    CASE pattern.tag \in {"Shadowed", "UnsupportedPattern", "MalformedPattern",
                          "OpaqueNotInScope"} -> <<pattern>>
      [] pattern.tag = "AppliedTag" -> SentinelsOfArguments(pattern.arguments, 1)
      [] pattern.tag = "UnwrappedOpaque" -> SentinelNodes(pattern.argument.pat.value)
      [] pattern.tag = "RecordDestructure" -> SentinelsOfDestructs(pattern.destructs, 1)
      [] OTHER -> <<>>

\* the diagnostic reports the problem the sentinel node stands for
Corresponds(sentinel, problem) ==
    CASE sentinel.tag = "Shadowed" ->
            /\ problem.tag = "Shadowing"
            /\ problem.original_region = sentinel.original_region
            /\ problem.shadow = sentinel.shadow
      [] sentinel.tag = "UnsupportedPattern" ->
            \/ problem.tag \in {"UnsupportedPattern", "OpaqueAppliedToMultipleArgs"}
               /\ problem.region = sentinel.region
            \/ problem.tag = "OpaqueNotApplied" /\ problem.loc_name.region = sentinel.region
      [] sentinel.tag = "MalformedPattern" ->
            /\ problem.tag = "MalformedPattern"
            /\ problem.problem = sentinel.problem
            /\ problem.region = sentinel.region
      [] sentinel.tag = "OpaqueNotInScope" ->
            /\ problem.tag = "OpaqueNotDefined"
            /\ problem.usage = sentinel.loc_name

\* every sentinel node of the returned tree has its diagnostic among those of the call
SentinelsAreReported ==
    LET sentinels == SentinelNodes(result.pat.value)
    IN  \A i \in 1..Len(sentinels) :
            \E j \in 1..Len(Appended) : Corresponds(sentinels[i], Appended[j])

\* every diagnostic of the call has its sentinel node in the returned tree
\* (those of a default expression are embedded in the expression)
ProblemsAreEmbedded ==
    LET sentinels == SentinelNodes(result.pat.value)
    IN  \A j \in 1..Len(Appended) :
            Appended[j].tag # "LookupNotInScope" =>
                \E i \in 1..Len(sentinels) : Corresponds(sentinels[i], Appended[j])

\* C11: for every call of canonicalize_pattern, every sentinel node (Shadowed,
\* UnsupportedPattern, MalformedPattern, OpaqueNotInScope) of the returned
\* tree has a diagnostic appended during the call, and every diagnostic
\* appended during the call has a sentinel node in the returned tree; no
\* call aborts.
C11_PropagationPolicy ==
    Called =>
        /\ status = "running"
        /\ SentinelsAreReported
        /\ ProblemsAreEmbedded

\* the names bound when field i of a record destructure is reached: those of
\* the scope before the call and those the earlier fields bind
BoundBefore(fields, i) ==
    {b.name : b \in call.before.idents}
    \cup UNION {BindingNames(fields[k].value) : k \in 1..(i - 1)}

\* the bare and optional fields whose label collides with a binding
FieldLabel(field) == IF field.tag = "Identifier" THEN field.name ELSE field.label

Conflicts(fields) ==
    {i \in 1..Len(fields) :
        /\ fields[i].value.tag \in {"Identifier", "OptionalField"}
        /\ FieldLabel(fields[i].value) \in BoundBefore(fields, i)}

\* the Shadowing diagnostics of the fields themselves carry the region of the
\* destructure
FieldShadowings ==
    SelectSeq(Appended, LAMBDA d : d.tag = "Shadowing" /\ d.shadow.region = call.region)

\* the result is the Shadowed sentinel of the last conflict, one Shadowing
\* diagnostic per conflict having been appended in the order of the fields
LastConflictWins(fields) ==
    LET last == CHOOSE i \in Conflicts(fields) : \A k \in Conflicts(fields) : k <= i
        v == result.pat.value
    IN  /\ v.tag = "Shadowed"
        /\ v.shadow = LocName(call.region, FieldLabel(fields[last].value))
        /\ ident_ids[v.symbol] = FieldLabel(fields[last].value)
        /\ Len(FieldShadowings) = Cardinality(Conflicts(fields))
        /\ FieldShadowings[Len(FieldShadowings)] =
              [tag |-> "Shadowing", original_region |-> v.original_region, shadow |-> v.shadow]
        /\ \A i \in Conflicts(fields) :
              \E j \in 1..Len(FieldShadowings) :
                  FieldShadowings[j].shadow.ident = FieldLabel(fields[i].value)

\* the guard of field i was canonicalized: a guard that is illegal in the
\* context has its diagnostic in the sink
GuardProcessed(fields, i) ==
    LET guard == fields[i].value.loc_guard
    IN  /\ fields[i].value.tag = "RequiredField"
        /\ call.pattern_type # "WhenBranch"
        /\ guard.value.tag \in {"Underscore", "NumLiteral"}
        => \E j \in 1..Len(Appended) :
              Appended[j].tag = "UnsupportedPattern" /\ Appended[j].region = guard.region

\* the default of field i was canonicalized: a default that looks up a name
\* that is not bound has its diagnostic in the sink
DefaultProcessed(fields, i) ==
    LET default == fields[i].value.loc_default
    IN  /\ fields[i].value.tag = "OptionalField"
        /\ default.value.tag = "Var"
        /\ default.value.ident \notin BoundBefore(fields, i) \cup {fields[i].value.label}
        => \E j \in 1..Len(Appended) :
              Appended[j] = [tag |-> "LookupNotInScope",
                             loc_name |-> LocName(default.region, default.value.ident)]

\* C12: when fields of a record destructure collide with existing bindings,
\* every field is still processed, guard sub-patterns and default
\* expressions included, one Shadowing diagnostic per conflict and the
\* diagnostics of guards and defaults being appended, and the result of the
\* whole destructure is the Shadowed sentinel of the last conflict.
C12_RecordShadowing ==
    LET fields == Unwrap(call.pattern).patterns
    IN  /\ Called
        /\ Unwrap(call.pattern).tag = "RecordDestructure"
        /\ Conflicts(fields) # {}
        =>  /\ status = "running"
            /\ LastConflictWins(fields)
            /\ \A i \in 1..Len(fields) :
                  GuardProcessed(fields, i) /\ DefaultProcessed(fields, i)

\* C13 (Scenario B): a tag applied to the same identifier twice (Foo a a) in
\* a scope that does not bind a yields an AppliedTag whose arguments are, in
\* source order, Identifier(a1) and Shadowed(region of the first a, a, a2) with
\* a1 # a2; exactly one Shadowing diagnostic is appended; symbols_from_pattern
\* on the result yields exactly a1 and a2, and Output.bound_symbols is {a1, a2}.
C13_ScenarioB ==
    LET pattern == Unwrap(call.pattern)
        args == pattern.patterns
        name == args[1].value.name
        v == result.pat.value
        a1 == v.arguments[1].pat
        a2 == v.arguments[2].pat
    IN  /\ Called
        /\ pattern.tag = "Apply"
        /\ pattern.head.value.tag \in {"GlobalTag", "PrivateTag"}
        /\ SameNameTwice(args)
        /\ ~InScope(call.before, name)
        =>  /\ status = "running"
            /\ v.tag = "AppliedTag"
            /\ v.tag_name.name = pattern.head.value.name
            /\ Len(v.arguments) = 2
            /\ a1.region = args[1].region
            /\ a1.value.tag = "Identifier"
            /\ a2 = Loc(args[2].region,
                        [tag |-> "Shadowed", original_region |-> args[1].region,
                         shadow |-> LocName(args[2].region, name), symbol |-> a2.value.symbol])
            /\ a1.value.symbol # a2.value.symbol
            /\ ident_ids[a1.value.symbol] = name
            /\ ident_ids[a2.value.symbol] = name
            /\ Appended = <<ShadowingOf(args[1].region, LocName(args[2].region, name))>>
            /\ symbols_from_pattern(v) = <<a1.value.symbol, a2.value.symbol>>
            /\ result.output.bound_symbols = {a1.value.symbol, a2.value.symbol}

C13_Witness ==
    /\ Returned
    /\ call.pattern.tag = "Apply"
    /\ call.pattern.head.value = GlobalTag("Foo")
    /\ SameNameTwice(call.pattern.patterns)
    /\ call.before.idents = {}
    /\ result.pat.value.tag = "AppliedTag"
    /\ result.pat.value.arguments[2].pat.value.tag = "Shadowed"
    /\ Cardinality(result.output.bound_symbols) = 2
    /\ Len(Appended) = 1

CalledHeader == call.fn = "canonicalize_def_header_pattern"

\* what canonicalize_pattern gives on the arguments and the environment of
\* the most recent call
AsCanonicalizePattern(pattern) ==
    canonicalize_pattern(call.before, call.pattern_type, pattern, call.region)

\* the most recent call ended as the call r of canonicalize_pattern does
SameOutcome(r) ==
    /\ status = (IF r.abort = "none" THEN "running" ELSE r.abort)
    /\ Env = r.st
    /\ r.abort = "none" => result = [output |-> r.output, pat |-> r.pat]

\* C14: canonicalize_def_header_pattern on an identifier yields
\* AbilityMemberSpecialization{ident = new symbol, specializes = the member's
\* symbol} if the name is that of a known ability member, otherwise
\* Identifier(symbol), or Shadowed(original_region, name, new_symbol) with one
\* Shadowing diagnostic on a collision; in all three cases the new symbol is
\* added to Output.bound_symbols; any other pattern is canonicalized exactly
\* as canonicalize_pattern would.
C14_HeaderIdentifier ==
    CalledHeader =>
        IF call.pattern.tag = "Identifier"
        THEN LET name == call.pattern.name
                 v == result.pat.value
                 new == Len(call.before.ident_ids) + 1
                 old == Binding(call.before, name)
             IN  /\ status = "running"
                 /\ result.pat.region = call.region
                 /\ ident_ids = Append(call.before.ident_ids, name)
                 /\ result.output = BindSymbol(OutputDefault, new)
                 /\ IF ~InScope(call.before, name)
                    THEN /\ v = [tag |-> "Identifier", symbol |-> new]
                         /\ Appended = <<>>
                    ELSE IF old.symbol \in abilities_store
                    THEN /\ v = [tag |-> "AbilityMemberSpecialization", ident |-> new,
                                 specializes |-> old.symbol]
                         /\ Appended = <<>>
                    ELSE /\ v = [tag |-> "Shadowed", original_region |-> old.region,
                                 shadow |-> LocName(call.region, name), symbol |-> new]
                         /\ Appended = <<ShadowingOf(old.region, LocName(call.region, name))>>
        ELSE SameOutcome(AsCanonicalizePattern(call.pattern))

C14_Witness ==
    /\ CalledHeader
    /\ status = "running"
    /\ call.pattern = Identifier("hash")
    /\ result.pat.value.tag = "AbilityMemberSpecialization"
    /\ result.pat.value.specializes \in abilities_store
    /\ result.pat.value.ident \in result.output.bound_symbols
    /\ Appended = <<>>

\* the symbols a canonical pattern contributes by the rules of the unordered
\* extraction, variant by variant
RECURSIVE RuleSymbols(_)
RuleSymbols(pattern) ==
    LET OfArguments[i \in 0..Len(pattern.arguments)] ==
            IF i = 0 THEN <<>>
            ELSE OfArguments[i - 1] \o RuleSymbols(pattern.arguments[i].pat.value)
        OfDestructs[i \in 0..Len(pattern.destructs)] ==
            IF i = 0 THEN <<>>
            ELSE OfDestructs[i - 1] \o
                 (IF pattern.destructs[i].value.typ.kind = "Guard"
                  THEN RuleSymbols(pattern.destructs[i].value.typ.pat.value)
                  ELSE <<pattern.destructs[i].value.symbol>>)
    IN  CASE pattern.tag \in {"Identifier", "Shadowed"} -> <<pattern.symbol>>
          [] pattern.tag = "AbilityMemberSpecialization" -> <<pattern.ident, pattern.specializes>>
          [] pattern.tag = "AppliedTag" -> OfArguments[Len(pattern.arguments)]
          [] pattern.tag = "UnwrappedOpaque" ->
                <<pattern.opaque>> \o RuleSymbols(pattern.argument.pat.value)
          [] pattern.tag = "RecordDestructure" -> OfDestructs[Len(pattern.destructs)]
          [] OTHER -> <<>>

\* C15: for every canonical pattern symbols_from_pattern returns exactly the
\* symbols of the rules: Identifier and Shadowed contribute their symbol,
\* AbilityMemberSpecialization both ident and specializes, AppliedTag the
\* symbols of its arguments, UnwrappedOpaque the opaque symbol and the symbols
\* of its argument, RecordDestructure per field the symbols of the guard for a
\* Guard field and the field's own symbol for Required and Optional; literals,
\* Underscore, MalformedPattern, UnsupportedPattern and OpaqueNotInScope
\* contribute nothing; the pattern is the same after the call.
C15_UnorderedExtraction ==
    [][call'.fn = "symbols_from_pattern" =>
          LET pattern == call.loc_patterns[1].value
          IN  /\ call'.loc_patterns = call.loc_patterns
              /\ Range(result'.symbols) = Range(RuleSymbols(pattern))
              /\ Len(result'.symbols) = Len(RuleSymbols(pattern))]_vars

C15_Witness ==
    /\ call.fn = "symbols_from_pattern"
    /\ call.loc_patterns[1].value.tag = "RecordDestructure"
    /\ Len(call.loc_patterns[1].value.destructs) = 2
    /\ call.loc_patterns[1].value.destructs[1].value.typ.kind = "Optional"
    /\ call.loc_patterns[1].value.destructs[2].value.typ.kind = "Guard"
    /\ call.loc_patterns[1].value.destructs[2].value.typ.pat.value.tag = "AbilityMemberSpecialization"
    /\ Len(result.symbols) = 3
    /\ call.loc_patterns[1].value.destructs[2].value.symbol \notin Range(result.symbols)

\* C16: for every canonical pattern p the symbols occurring in
\* bindings_from_patterns([p]) are those symbols_from_pattern(p) returns, for
\* Guard record fields and AbilityMemberSpecialization nodes in particular.
C16_SameBindingRules ==
    call.fn = "bindings_from_patterns" /\ Len(call.loc_patterns) = 1 =>
        {result.bindings[i].symbol : i \in 1..Len(result.bindings)}
            = Range(symbols_from_pattern(call.loc_patterns[1].value))

\* C17: under WhenBranch a non-decimal literal with the negative sign whose
\* parsed value is an unsigned 128-bit value yields MalformedPattern(MalformedInt)
\* with one diagnostic, never an IntLiteral; a negative literal whose parsed
\* value n is a signed 128-bit value yields the IntLiteral of value -n, which
\* is within the signed range.
C17_NegatedUnsigned ==
    LET pattern == Unwrap(call.pattern)
        p == finish_parsing_base(pattern.string, pattern.base, pattern.is_negative)
        v == result.pat.value
        malformed == [tag |-> "MalformedPattern", problem |-> [kind |-> "MalformedInt"],
                      region |-> call.region]
    IN  /\ Called
        /\ call.pattern_type = "WhenBranch"
        /\ pattern.tag = "NonBase10Literal"
        /\ pattern.is_negative
        /\ p.ok
        =>  /\ status = "running"
            /\ p.int.kind = "U128" => v = malformed /\ Appended = <<malformed>>
            /\ p.int.kind = "I128" =>
                  /\ v.tag = "IntLiteral"
                  /\ v.int = [kind |-> "I128", n |-> 0 - p.int.n]
                  /\ v.int.n >= 0 - I128_MAX - 1
                  /\ v.int.n <= I128_MAX
                  /\ Appended = <<>>

C17_Witness ==
    /\ Returned
    /\ call.pattern_type = "WhenBranch"
    /\ call.pattern.tag = "NonBase10Literal"
    /\ call.pattern.is_negative
    /\ DigitsValue(call.pattern.string, 16) = U128_MAX
    /\ result.pat.value.tag = "MalformedPattern"
    /\ result.pat.value.problem.kind = "MalformedInt"
    /\ Len(Appended) = 1

\* a whitespace wrapper is the root of the surface pattern
IsWrapper(pattern) == pattern.tag \in {"SpaceBefore", "SpaceAfter"}

\* no whitespace wrapper is a node of the canonical tree
RECURSIVE NoWrapperNode(_)
NoWrapperNode(pattern) ==
    /\ ~IsWrapper(pattern)
    /\ pattern.tag = "AppliedTag" =>
          \A i \in 1..Len(pattern.arguments) : NoWrapperNode(pattern.arguments[i].pat.value)
    /\ pattern.tag = "UnwrappedOpaque" => NoWrapperNode(pattern.argument.pat.value)
    /\ pattern.tag = "RecordDestructure" =>
          \A i \in 1..Len(pattern.destructs) :
              pattern.destructs[i].value.typ.kind = "Guard" =>
                  NoWrapperNode(pattern.destructs[i].value.typ.pat.value)

\* canonicalize_pattern on SpaceBefore(p) or SpaceAfter(p) ends as on p
TransparentInPattern ==
    Called /\ IsWrapper(call.pattern) =>
        /\ SameOutcome(AsCanonicalizePattern(call.pattern.sub_pattern))
        /\ status = "running" => NoWrapperNode(result.pat.value)

\* canonicalize_def_header_pattern on SpaceBefore(p) or SpaceAfter(p) ends as on p
TransparentInHeader ==
    CalledHeader /\ IsWrapper(call.pattern) =>
        /\ SameOutcome(canonicalize_def_header_pattern(call.before, call.pattern_type,
                                                       call.pattern.sub_pattern, call.region))
        /\ status = "running" => NoWrapperNode(result.pat.value)

\* C18: for every pattern p, context and scope, canonicalizing SpaceBefore(p)
\* or SpaceAfter(p), through canonicalize_pattern and through
\* canonicalize_def_header_pattern, gives the same canonical pattern, region,
\* Output, diagnostics and scope effects as canonicalizing p itself with the
\* same region and context, and no wrapper node is in the canonical tree.
C18_WhitespaceTransparency == TransparentInPattern /\ TransparentInHeader

\* the text of a sequence of plain-text and escape segments
RECURSIVE TextOf(_)
TextOf(segments) ==
    IF segments = <<>> THEN <<>>
    ELSE (IF Head(segments).tag = "Plaintext" THEN Head(segments).text
          ELSE <<unescape_char(Head(segments).escaped)>>) \o TextOf(Tail(segments))

\* C19: under WhenBranch a string literal with no interpolation and no
\* unicode-escape segment canonicalizes to StrLiteral(text), text being the
\* concatenation, in source order across all lines, of every plain-text
\* segment and of the decoded character of every escape segment; a PlainLine
\* literal yields StrLiteral of its text unchanged.
C19_StringFlattening ==
    LET literal == Unwrap(call.pattern).literal
    IN  /\ Called
        /\ call.pattern_type = "WhenBranch"
        /\ Unwrap(call.pattern).tag = "StrLiteral"
        /\ ~HasSegment(literal, "Interpolated")
        /\ ~HasSegment(literal, "Unicode")
        =>  /\ status = "running"
            /\ Appended = <<>>
            /\ result.pat.value =
                  [tag |-> "StrLiteral",
                   text |-> IF literal.tag = "PlainLine" THEN literal.text
                            ELSE TextOf(Segments(literal))]

C19_Witness ==
    /\ Returned
    /\ call.pattern_type = "WhenBranch"
    /\ call.pattern.tag = "StrLiteral"
    /\ call.pattern.literal.tag = "Block"
    /\ Len(call.pattern.literal.lines) = 2
    /\ result.pat.value = [tag |-> "StrLiteral", text |-> <<"a", "\t", "b">>]

Pair(symbol, region) == [symbol |-> symbol, region |-> region]

\* a is b with some of its elements left out
RECURSIVE IsSubsequence(_, _)
IsSubsequence(a, b) ==
    IF a = <<>> THEN TRUE
    ELSE IF b = <<>> THEN FALSE
    ELSE IF Head(a) = Head(b) THEN IsSubsequence(Tail(a), Tail(b))
    ELSE IsSubsequence(a, Tail(b))

\* the (symbol, region of the owning node) pairs of a located pattern in a
\* depth-first walk, arguments and fields in source order, the pair of an
\* opaque before those of its argument (opaque_first) or after them.  The
\* walk of all owners (all) has the pairs of guard sub-patterns, the pair of a
\* Guard field and the pair of the specialized ability member, on which the
\* two extractions differ; the walk without them has only the others.
RECURSIVE Walk(_, _, _, _)
Walk(region, pattern, all, opaque_first) ==
    LET OfArguments[i \in 0..Len(pattern.arguments)] ==
            IF i = 0 THEN <<>>
            ELSE OfArguments[i - 1] \o Walk(pattern.arguments[i].pat.region,
                                            pattern.arguments[i].pat.value, all, opaque_first)
        OfDestruct(d) ==
            IF d.value.typ.kind # "Guard" THEN <<Pair(d.value.symbol, d.region)>>
            ELSE IF all
            THEN <<Pair(d.value.symbol, d.region)>>
                 \o Walk(d.value.typ.pat.region, d.value.typ.pat.value, all, opaque_first)
            ELSE <<>>
        OfDestructs[i \in 0..Len(pattern.destructs)] ==
            IF i = 0 THEN <<>> ELSE OfDestructs[i - 1] \o OfDestruct(pattern.destructs[i])
        argument == Walk(pattern.argument.pat.region, pattern.argument.pat.value, all, opaque_first)
    IN  CASE pattern.tag \in {"Identifier", "Shadowed"} -> <<Pair(pattern.symbol, region)>>
          [] pattern.tag = "AbilityMemberSpecialization" ->
                <<Pair(pattern.ident, region)>>
                \o (IF all THEN <<Pair(pattern.specializes, region)>> ELSE <<>>)
          [] pattern.tag = "AppliedTag" -> OfArguments[Len(pattern.arguments)]
          [] pattern.tag = "UnwrappedOpaque" ->
                IF opaque_first THEN <<Pair(pattern.opaque, region)>> \o argument
                ELSE argument \o <<Pair(pattern.opaque, region)>>
          [] pattern.tag = "RecordDestructure" -> OfDestructs[Len(pattern.destructs)]
          [] OTHER -> <<>>

\* the walks of the patterns of a list, in the order of the list
RECURSIVE WalkList(_, _, _)
WalkList(loc_patterns, all, opaque_first) ==
    IF loc_patterns = <<>> THEN <<>>
    ELSE Walk(Head(loc_patterns).region, Head(loc_patterns).value, all, opaque_first)
         \o WalkList(Tail(loc_patterns), all, opaque_first)

\* the pairs returned are in the order of the walk, each with the region of
\* its owner, none of the undisputed ones missing
InWalkOrder(opaque_first) ==
    /\ IsSubsequence(WalkList(call.loc_patterns, FALSE, opaque_first), result.bindings)
    /\ IsSubsequence(result.bindings, WalkList(call.loc_patterns, TRUE, opaque_first))

\* C20 as claimed: bindings_from_patterns returns its pairs in the order of
\* the input patterns and, within one pattern, in depth-first source order
\* (an UnwrappedOpaque, whose region begins with the opaque's name, before its
\* argument), each symbol paired with the region of the node that owns it.
C20_OrderedExtractionAsClaimed ==
    call.fn = "bindings_from_patterns" => InWalkOrder(TRUE)

\* C20 (amended): bindings_from_patterns returns its pairs in the order of the
\* input patterns and, within one pattern, depth first with arguments and
\* fields in source order and the pair of an UnwrappedOpaque after the pairs
\* of its argument; an Identifier, Shadowed or AbilityMemberSpecialization
\* symbol is paired with the region of its located node, the symbol of a
\* record field with the field's region, an opaque symbol with the region of
\* the UnwrappedOpaque node; literals, Underscore and the remaining error
\* nodes contribute no pair.
C20_OrderedExtraction ==
    call.fn = "bindings_from_patterns" => InWalkOrder(FALSE)

C20_Witness ==
    /\ call.fn = "bindings_from_patterns"
    /\ Len(call.loc_patterns) = 2
    /\ call.loc_patterns[1].value.tag = "UnwrappedOpaque"
    /\ call.loc_patterns[2].value.tag = "Shadowed"
    /\ result.bindings = <<Pair(11, 11), Pair(2001, 1), Pair(2, 2)>>

\* the type variables occurring in a canonical tree, one entry per occurrence
RECURSIVE VarsOf(_)
VarsOf(pattern) ==
    LET OfArguments[i \in 0..Len(pattern.arguments)] ==
            IF i = 0 THEN <<>>
            ELSE OfArguments[i - 1] \o <<pattern.arguments[i].var>>
                 \o VarsOf(pattern.arguments[i].pat.value)
        OfType(typ) ==
            CASE typ.kind = "Guard" -> <<typ.var>> \o VarsOf(typ.pat.value)
              [] typ.kind = "Optional" ->
                    <<typ.var>> \o (IF typ.expr.value.tag = "Num" THEN <<typ.expr.value.var>> ELSE <<>>)
              [] OTHER -> <<>>
        OfDestructs[i \in 0..Len(pattern.destructs)] ==
            IF i = 0 THEN <<>>
            ELSE OfDestructs[i - 1] \o <<pattern.destructs[i].value.var>>
                 \o OfType(pattern.destructs[i].value.typ)
    IN  CASE pattern.tag = "AppliedTag" ->
                <<pattern.whole_var, pattern.ext_var>> \o OfArguments[Len(pattern.arguments)]
          [] pattern.tag = "UnwrappedOpaque" ->
                <<pattern.whole_var>> \o pattern.type_arguments \o <<pattern.argument.var>>
                \o VarsOf(pattern.argument.pat.value)
          [] pattern.tag = "RecordDestructure" ->
                <<pattern.whole_var, pattern.ext_var>> \o OfDestructs[Len(pattern.destructs)]
          [] pattern.tag \in {"IntLiteral", "FloatLiteral"} -> <<pattern.var, pattern.precision_var>>
          [] pattern.tag = "NumLiteral" -> <<pattern.var>>
          [] OTHER -> <<>>

\* the AppliedTag nodes of a canonical tree
RECURSIVE AppliedTags(_)
AppliedTags(pattern) ==
    CASE pattern.tag = "AppliedTag" ->
            {pattern} \cup UNION {AppliedTags(pattern.arguments[i].pat.value) :
                                    i \in 1..Len(pattern.arguments)}
      [] pattern.tag = "UnwrappedOpaque" -> AppliedTags(pattern.argument.pat.value)
      [] pattern.tag = "RecordDestructure" ->
            UNION {IF pattern.destructs[i].value.typ.kind = "Guard"
                   THEN AppliedTags(pattern.destructs[i].value.typ.pat.value) ELSE {} :
                     i \in 1..Len(pattern.destructs)}
      [] OTHER -> {}

\* the variables an AppliedTag holds itself
OwnVars(node) ==
    {node.whole_var, node.ext_var} \cup {node.arguments[i].var : i \in 1..Len(node.arguments)}

PairwiseDistinct(s) == \A i, j \in 1..Len(s) : i # j => s[i] # s[j]

\* C21: the type variables of a returned canonical tree are pairwise distinct
\* and were all handed out by the variable store during the call that built
\* the tree, so that on a store that never repeats a variable no two trees of
\* a sequence of calls share one; an AppliedTag of n arguments holds exactly
\* n + 2 variables of its own, whole_var, ext_var and one per argument, n
\* being the number of argument sub-patterns of the Apply it was built from.
C21_FreshTypeVariables ==
    Returned =>
        LET vs == VarsOf(result.pat.value)
            in == Unwrap(call.pattern)
        IN  /\ PairwiseDistinct(vs)
            /\ \A i \in 1..Len(vs) : call.before.var_store <= vs[i] /\ vs[i] < var_store
            /\ \A node \in AppliedTags(result.pat.value) :
                  Cardinality(OwnVars(node)) = Len(node.arguments) + 2
            /\ result.pat.value.tag = "AppliedTag" =>
                  Len(result.pat.value.arguments) =
                      IF in.tag = "Apply" THEN Len(in.patterns) ELSE 0

C21_Witness ==
    /\ Returned
    /\ call.before.var_store > 0
    /\ call.pattern.tag = "Apply"
    /\ Len(call.pattern.patterns) = 2
    /\ result.pat.value.tag = "AppliedTag"
    /\ Cardinality(OwnVars(result.pat.value)) = 4
    /\ Len(VarsOf(result.pat.value)) = 4

\* the environment in which argument i of an Apply is canonicalized
ArgumentEnv(st, pattern_type, patterns, i) ==
    apply_args(st, pattern_type, SubSeq(patterns, 1, i - 1), 1, OutputDefault, <<>>).st

\* the environment in which field i of a record destructure is canonicalized
FieldEnv(st, pattern_type, patterns, i, region) ==
    record_fields([st |-> fresh(fresh(st)), output |-> OutputDefault, destructs |-> <<>>,
                   opt_erroneous |-> [some |-> FALSE], abort |-> "none"],
                  pattern_type, SubSeq(patterns, 1, i - 1), 1, region).st

\* the sub-patterns of a node that are canonicalized recursively, each with
\* the environment of its call: the arguments of an Apply, the guards of a
\* record destructure
PatternChildren(st, pattern_type, pattern, region) ==
    CASE pattern.tag = "Apply" ->
            {[st |-> ArgumentEnv(st, pattern_type, pattern.patterns, i),
              pattern |-> pattern.patterns[i].value,
              region |-> pattern.patterns[i].region] : i \in 1..Len(pattern.patterns)}
      [] pattern.tag = "RecordDestructure" ->
            {[st |-> ignore(FieldEnv(st, pattern_type, pattern.patterns, i, region),
                            pattern.patterns[i].value.label).st,
              pattern |-> pattern.patterns[i].value.loc_guard.value,
              region |-> pattern.patterns[i].value.loc_guard.region] :
                i \in {j \in 1..Len(pattern.patterns) :
                          pattern.patterns[j].value.tag = "RequiredField"}}
      [] OTHER -> {}

\* the Outputs of the default expressions of a record destructure that are
\* canonicalized: those of the optional fields whose label does not collide
DefaultOutputs(st, pattern_type, pattern, region) ==
    IF pattern.tag # "RecordDestructure" THEN {}
    ELSE {LET field == pattern.patterns[i].value
              i0 == introduce(FieldEnv(st, pattern_type, pattern.patterns, i, region),
                              field.label, region)
          IN  canonicalize_expr(i0.st, field.loc_default.region, field.loc_default.value).output :
            i \in {j \in 1..Len(pattern.patterns) :
                      /\ pattern.patterns[j].value.tag = "OptionalField"
                      /\ introduce(FieldEnv(st, pattern_type, pattern.patterns, j, region),
                                   pattern.patterns[j].value.label, region).ok}}

\* the Outputs of all recursively canonicalized children of a node
ChildOutputs(st, pattern_type, pattern, region) ==
    {canonicalize_pattern(c.st, pattern_type, c.pattern, c.region).output :
        c \in PatternChildren(st, pattern_type, pattern, region)}
    \cup DefaultOutputs(st, pattern_type, pattern, region)

Contains(a, b) == union(a, b) = a

\* what a node adds to its Output itself, read from the canonical node: an
\* UnwrappedOpaque its opaque as a referenced and looked-up type, a
\* RecordDestructure the symbols of its bare and optional fields
OwnOutput(value) ==
    CASE value.tag = "UnwrappedOpaque" ->
            [OutputDefault EXCEPT !.referenced_type_defs = {value.opaque},
                                  !.type_lookups = {value.opaque}]
      [] value.tag = "RecordDestructure" ->
            [OutputDefault EXCEPT !.bound_symbols =
                {value.destructs[i].value.symbol :
                    i \in {j \in 1..Len(value.destructs) :
                              value.destructs[j].value.typ.kind # "Guard"}}]
      [] OTHER -> OutputDefault

RECURSIVE UnionAll(_)
UnionAll(outputs) ==
    IF outputs = {} THEN OutputDefault
    ELSE LET o == CHOOSE o \in outputs : TRUE
         IN  union(o, UnionAll(outputs \ {o}))

\* the Output of the node contains those of its children, whatever the node
\* came out as, and so on below it; an Apply, and a record destructure that
\* came out as one, return exactly the children's Outputs and their own
RECURSIVE Accumulates(_, _, _, _)
Accumulates(st, pattern_type, pattern, region) ==
    LET c == canonicalize_pattern(st, pattern_type, pattern, region)
        in == Unwrap(pattern)
        children == ChildOutputs(st, pattern_type, in, region)
    IN  /\ \A o \in children : Contains(c.output, o)
        /\ Contains(c.output, OwnOutput(c.pat.value))
        /\ in.tag = "Apply" \/ c.pat.value.tag = "RecordDestructure" =>
              c.output = union(UnionAll(children), OwnOutput(c.pat.value))
        /\ \A sub \in PatternChildren(st, pattern_type, in, region) :
              Accumulates(sub.st, pattern_type, sub.pattern, sub.region)

\* C22: the Output returned for a compound pattern contains the Outputs of
\* all its recursively canonicalized children (tag and opaque arguments,
\* record guards, the default expressions that are canonicalized) and the
\* node's own contributions, also when the node comes out as an error
\* sentinel: the children's Outputs are merged before the error decision.
C22_OutputAccumulation ==
    Returned =>
        /\ result.output =
              canonicalize_pattern(call.before, call.pattern_type, call.pattern, call.region).output
        /\ Accumulates(call.before, call.pattern_type, call.pattern, call.region)

\* an opaque applied to two arguments comes out as UnsupportedPattern and the
\* symbols bound by both arguments are in the Output
C22_Witness ==
    /\ Returned
    /\ AppliedOpaque(call.pattern)
    /\ OpaqueInScope(call.pattern.head.value.name)
    /\ Len(call.pattern.patterns) = 2
    /\ result.pat.value.tag = "UnsupportedPattern"
    /\ Cardinality(result.output.bound_symbols) = 2
    /\ Cardinality(ChildOutputs(call.before, call.pattern_type, call.pattern, call.region)) = 2

IsPrefix(a, b) == Len(a) <= Len(b) /\ SubSeq(b, 1, Len(a)) = a

\* a default expression of the tree came out as a runtime error
RECURSIVE HasErroneousDefault(_)
HasErroneousDefault(pattern) ==
    CASE pattern.tag = "AppliedTag" ->
            \E i \in 1..Len(pattern.arguments) : HasErroneousDefault(pattern.arguments[i].pat.value)
      [] pattern.tag = "UnwrappedOpaque" -> HasErroneousDefault(pattern.argument.pat.value)
      [] pattern.tag = "RecordDestructure" ->
            \E i \in 1..Len(pattern.destructs) :
                LET typ == pattern.destructs[i].value.typ
                IN  \/ typ.kind = "Optional" /\ typ.expr.value.tag = "RuntimeError"
                    \/ typ.kind = "Guard" /\ HasErroneousDefault(typ.pat.value)
      [] OTHER -> FALSE

\* the call detected no problem: it returned a tree without an error node
NoProblemDetected(r, s) ==
    /\ s = "running"
    /\ SentinelNodes(r.pat.value) = <<>>
    /\ ~HasErroneousDefault(r.pat.value)

\* C23: across any sequence of calls of canonicalize_pattern and
\* canonicalize_def_header_pattern on one environment, the diagnostics
\* recorded before a call are a prefix of those recorded after it (nothing is
\* removed, reordered or rewritten), and a call that detects no problem
\* leaves the sink as it was.
C23_AppendOnlySink ==
    [][/\ IsPrefix(problems, problems')
       /\ NoProblemDetected(result', status') => problems' = problems]_vars

\* a second call, of canonicalize_def_header_pattern, that appends to a sink
\* which already holds a diagnostic of the call before it
C23_Witness ==
    /\ ncalls = 2
    /\ status = "running"
    /\ call.fn = "canonicalize_def_header_pattern"
    /\ call.before.problems # <<>>
    /\ Len(problems) > Len(call.before.problems)
    /\ IsPrefix(call.before.problems, problems)
    /\ ~NoProblemDetected(result, status)

\* C24: under WhenBranch every non-decimal-base literal that the classifier
\* parses successfully yields IntLiteral or MalformedPattern; the arm
\* `IntValue::U128(_) => unreachable!()` is never reached, a non-negative
\* literal classified as an unsigned value of full width included.
C24_UnsignedArmNeverReached ==
    /\ Called
    /\ call.pattern_type = "WhenBranch"
    /\ Unwrap(call.pattern).tag = "NonBase10Literal"
    /\ finish_parsing_base(Unwrap(call.pattern).string, Unwrap(call.pattern).base,
                           Unwrap(call.pattern).is_negative).ok
    => /\ status # "unreachable"
       /\ status = "running"
       /\ result.pat.value.tag \in {"IntLiteral", "MalformedPattern"}

\* the opaque symbols and the specialized ability members of a canonical tree
RECURSIVE NonBindingSymbols(_)
NonBindingSymbols(pattern) ==
    CASE pattern.tag = "AbilityMemberSpecialization" -> {pattern.specializes}
      [] pattern.tag = "AppliedTag" ->
            UNION {NonBindingSymbols(pattern.arguments[i].pat.value) :
                     i \in 1..Len(pattern.arguments)}
      [] pattern.tag = "UnwrappedOpaque" ->
            {pattern.opaque} \cup NonBindingSymbols(pattern.argument.pat.value)
      [] pattern.tag = "RecordDestructure" ->
            UNION {IF pattern.destructs[i].value.typ.kind = "Guard"
                   THEN NonBindingSymbols(pattern.destructs[i].value.typ.pat.value) ELSE {} :
                     i \in 1..Len(pattern.destructs)}
      [] OTHER -> {}

\* C25: for every call of canonicalize_pattern, every symbol of the returned
\* Output.bound_symbols is returned by symbols_from_pattern on the returned
\* tree, and every symbol symbols_from_pattern returns, opaque symbols and
\* specialized ability members apart, is in Output.bound_symbols, also when a
\* record destructure or an opaque application collapses to an error sentinel.
C25_BoundSetTreeConsistency ==
    Returned =>
        LET extracted == Range(symbols_from_pattern(result.pat.value))
        IN  /\ result.output.bound_symbols \subseteq extracted
            /\ extracted \ NonBindingSymbols(result.pat.value) \subseteq result.output.bound_symbols

\* the bindings the call put into the scope
Introduced == idents \ call.before.idents

\* C26: after any sequence of calls of canonicalize_pattern on one scope,
\* every name the calls introduced into the scope is bound by a symbol that
\* occurs in one of the returned trees, so that a later identifier comes out
\* as Shadowed only if an earlier tree has a node binding its name, the names
\* introduced under a node that collapsed to a sentinel included.  A symbol
\* is minted by the call that introduces it and can occur in no tree but that
\* call's: the claim is that of every call for the bindings it adds.
C26_ScopeTreeConsistency ==
    Returned =>
        \A b \in Introduced : b.symbol \in Range(RuleSymbols(result.pat.value))

CalledAdvanceWithoutIndenting ==
    call.fn \in {"advance_without_indenting_e", "advance_without_indenting_ee"}

\* the error the call's to_error makes of a position
ErrorAt(p) ==
    IF call.fn = "advance_without_indenting_e" THEN ToBadInputError[<<"LineTooLong", p>>] ELSE ToError[p]

\* the call returned without panicking
AdvanceReturns == status = "running"

\* Err((NoProgress, to_error(pos), state)), the state as it was, exactly when
\* column + quantity exceeds u16::MAX
AdvanceErr ==
    /\ result.tag = "Err" <=> call.state.column + call.quantity > U16_MAX
    /\ result.tag = "Err" =>
          /\ result.progress = "NoProgress"
          /\ result.error = ErrorAt(pos(call.state))
          /\ result.state = call.state

\* Ok(state'): the column and pos() have advanced by quantity, indent_column
\* and input_len are as they were
AdvanceOk ==
    result.tag = "Ok" =>
        /\ result.state.column = call.state.column + call.quantity
        /\ pos(result.state) = pos(call.state) + call.quantity
        /\ result.state.indent_column = call.state.indent_column
        /\ result.state.input_len = call.state.input_len

\* C27: for every State and quantity advance_without_indenting_ee returns a
\* value without aborting: Err((NoProgress, to_error(pos), state)) with the
\* state unchanged exactly when column + quantity exceeds u16::MAX, and
\* otherwise Ok(state') with state'.column = column + quantity, pos()
\* increased by exactly quantity and indent_column and input_len unchanged;
\* the column never exceeds u16::MAX in a reachable state.
C27_AdvanceWithoutIndenting ==
    /\ result.state.column <= U16_MAX
    /\ CalledAdvanceWithoutIndenting =>
          /\ AdvanceReturns
          /\ AdvanceErr
          /\ AdvanceOk

====
